---- MODULE Spec2Model ----
(***************************************************************************)
(* Model of the JSON Logic -> SQL compiler of Nam088/json-logic-to-sql.    *)
(*                                                                         *)
(* A compiler instance is constructed from a configuration (schema,        *)
(* dialect, placeholder style, depth and condition caps) and then          *)
(* compiles rules.  compile(rule) is modelled as one atomic action that    *)
(* evaluates the recursive walk of the source (visit / handleLogicalAnd /  *)
(* handleCondition / dialect emitters) and stores the outcome.             *)
(*                                                                         *)
(* Representation                                                          *)
(*   - a JavaScript string is a sequence of one-character strings;         *)
(*   - a JSON value is a record [t, c, n, ks, xs] (type tag, characters of *)
(*     a string, number, keys of an object, elements / member values);     *)
(*   - SQL text is a sequence of text atoms: the literal pieces of the     *)
(*     template strings of the source, the placeholder texts ("$1", "?",   *)
(*     "@p1") and the characters of quoted identifiers;                    *)
(*   - a params object is a sequence of [k, v] entries in insertion order  *)
(*     (JavaScript objects keep insertion order for non-integer keys).     *)
(***************************************************************************)
EXTENDS Integers, Sequences, FiniteSets, TLC

VARIABLES compiler, rule, result, pc

vars == <<compiler, rule, result, pc>>

-----------------------------------------------------------------------------
(* JSON values                                                             *)

JNull == [t |-> "null", c |-> <<>>, n |-> 0, ks |-> <<>>, xs |-> <<>>]

JNum(n) == [t |-> "num", c |-> <<>>, n |-> n, ks |-> <<>>, xs |-> <<>>]

JStr(c) == [t |-> "str", c |-> c, n |-> 0, ks |-> <<>>, xs |-> <<>>]

JList(xs) == [t |-> "list", c |-> <<>>, n |-> 0, ks |-> <<>>, xs |-> xs]

JObj(ks, xs) == [t |-> "obj", c |-> <<>>, n |-> 0, ks |-> ks, xs |-> xs]

\* JSON.stringify(v): a string whose text is the serialisation of v
JSON_stringify(v) == [t |-> "jsonstr", c |-> <<>>, n |-> 0, ks |-> <<>>, xs |-> <<v>>]

isString(v) == v.t \in {"str", "jsonstr"}

isArray(v) == v.t = "list"

isNullV(v) == v.t = "null"

\* the backtick character (the module syntax has no literal for it)
BT == "<backtick>"

\* the NUL character
NUL == "\\0"

\* "absent" for optional numeric settings and constraints
Undefined == -1

SeqToSet(s) == {s[i] : i \in 1..Len(s)}

RECURSIVE ReplaceAll(_, _, _)
\* String.prototype.replace(/ch/g, rep) on a character sequence
ReplaceAll(s, ch, rep) ==
  IF s = <<>> THEN <<>>
  ELSE (IF Head(s) = ch THEN rep ELSE <<Head(s)>>) \o ReplaceAll(Tail(s), ch, rep)

RECURSIVE SplitFrom(_, _, _)
SplitFrom(s, sep, cur) ==
  IF s = <<>> THEN <<cur>>
  ELSE IF Head(s) = sep THEN <<cur>> \o SplitFrom(Tail(s), sep, <<>>)
  ELSE SplitFrom(Tail(s), sep, Append(cur, Head(s)))

\* String.prototype.split(sep) for a one-character separator
Split(s, sep) == SplitFrom(s, sep, <<>>)

RECURSIVE Join(_, _)
\* Array.prototype.join(sep) over sequences of text atoms
Join(parts, sep) ==
  IF parts = <<>> THEN <<>>
  ELSE IF Len(parts) = 1 THEN parts[1]
  ELSE parts[1] \o sep \o Join(Tail(parts), sep)

-----------------------------------------------------------------------------
(* Operator registry (operators/index.ts)                                  *)

JSON_LOGIC_TO_OPERATOR ==
  [tok \in {"==", "===", "!=", "!==", ">", ">=", "<", "<=", "in", "!in"} |->
     CASE tok \in {"==", "==="} -> "eq"
       [] tok \in {"!=", "!=="} -> "ne"
       [] tok = ">" -> "gt"
       [] tok = ">=" -> "gte"
       [] tok = "<" -> "lt"
       [] tok = "<=" -> "lte"
       [] tok = "in" -> "in"
       [] tok = "!in" -> "not_in"]

\* the internal operator names (type Operator)
Operator ==
  {"eq", "ne", "gt", "gte", "lt", "lte",
   "in", "not_in", "contains", "contained_by", "overlaps", "any_of", "not_any_of", "any_ilike",
   "like", "ilike", "starts_with", "ends_with", "regex",
   "is_null", "is_not_null", "between", "not_between",
   "json_contains", "json_has_key", "json_has_any_keys"}

UNARY_OPERATORS == {"is_null", "is_not_null"}

RANGE_OPERATORS == {"between", "not_between"}

ARRAY_OPERATORS == {"in", "not_in", "overlaps", "contained_by"}

-----------------------------------------------------------------------------
(* Schema: the field definitions the compiler instance is built with       *)

NoOptions == [defined |-> FALSE, strict |-> TRUE, items |-> {}]

NoConstraints ==
  [defined |-> FALSE, minLength |-> Undefined, maxLength |-> Undefined,
   min |-> Undefined, max |-> Undefined,
   minItems |-> Undefined, maxItems |-> Undefined]

\* a regular field with every optional attribute absent
Field(type, operators) ==
  [type |-> type, operators |-> operators, column |-> <<>>,
   filterable |-> TRUE, nullable |-> FALSE, caseSensitive |-> FALSE,
   options |-> NoOptions, constraints |-> NoConstraints,
   transformInput |-> <<>>, computed |-> FALSE, expression |-> "",
   jsonPath |-> ""]

f_status == <<"s", "t", "a", "t", "u", "s">>
f_name == <<"n", "a", "m", "e">>
f_age == <<"a", "g", "e">>
f_tags == <<"t", "a", "g", "s">>
f_meta == <<"m", "e", "t", "a">>
f_secret == <<"s", "e", "c", "r", "e", "t">>
f_weird == <<"w", "e", "i", "r", "d">>
f_total == <<"t", "o", "t", "a", "l">>
f_price == <<"p", "r", "i", "c", "e">>
f_lname == <<"l", "n", "a", "m", "e">>
f_jcity == <<"j", "c", "i", "t", "y">>
f_cname == <<"c", "n", "a", "m", "e">>
f_ghost == <<"g", "h", "o", "s", "t">>

s_on == <<"o", "n">>
s_off == <<"o", "f", "f">>

Schema ==
  (f_status :> [Field("string", {"eq", "ne", "in", "not_in"}) EXCEPT
                  !.options = [defined |-> TRUE, strict |-> TRUE,
                               items |-> {JStr(s_on), JStr(s_off)}]])
  @@ (f_name :> [Field("string", {"eq", "ne", "in", "not_in", "between", "contains",
                                  "starts_with", "ends_with", "like", "ilike", "regex",
                                  "is_null", "is_not_null"}) EXCEPT
                  !.nullable = TRUE,
                  !.constraints = [NoConstraints EXCEPT !.defined = TRUE, !.maxLength = 2]])
  @@ (f_age :> [Field("integer", {"eq", "gt", "lt", "between", "not_between", "in", "not_in"}) EXCEPT
                  !.constraints = [NoConstraints EXCEPT !.defined = TRUE, !.min = 1, !.max = 3]])
  @@ (f_tags :> Field("array", {"contains", "contained_by", "overlaps", "any_of", "not_any_of",
                                "in", "not_in", "any_ilike", "not_any_ilike"}))
  @@ (f_meta :> Field("jsonb", {"eq", "contains", "contained_by", "overlaps", "any_of",
                                "not_any_of", "in", "not_in", "json_contains", "json_has_key",
                                "json_has_any_keys"}))
  @@ (f_secret :> [Field("string", {"eq"}) EXCEPT !.filterable = FALSE])
  @@ (f_weird :> [Field("string", {"eq", "in"}) EXCEPT
                  !.column = <<"t", ".", "w", "\"", "]", BT, "-", "1">>])
  @@ (f_total :> [Field("number", {"eq", "gt"}) EXCEPT
                  !.computed = TRUE, !.expression = "price * qty"])
  @@ (f_price :> [Field("number", {"eq", "ne", "gt"}) EXCEPT
                  !.nullable = TRUE, !.jsonPath = "data->>'price'"])
  @@ (f_lname :> [Field("string", {"eq", "in", "between", "contains"}) EXCEPT
                  !.nullable = TRUE, !.transformInput = <<"lower", "trim">>])
  @@ (f_jcity :> [Field("string", {"eq", "in"}) EXCEPT
                  !.jsonPath = "data->>'city'", !.transformInput = <<"lower">>])
  @@ (f_cname :> [Field("string", {"eq", "in"}) EXCEPT
                  !.computed = TRUE, !.expression = "first || last",
                  !.transformInput = <<"lower">>])

-----------------------------------------------------------------------------
(* Results, compilation context and params objects                         *)

\* CompilerContext as created by compile(): fieldType "" is undefined
\* emitterFieldTypes is not a field of the source: it records, call by
\* call, the fieldType the context had when a dialect emitter received it
NewContext ==
  [depth |-> 0, conditionCount |-> 0, paramIndex |-> 1, fieldType |-> "",
   emitterFieldTypes |-> <<>>]

\* a returned SqlResult together with the (mutated) context
Ok(sql, params, ctx) ==
  [ok |-> TRUE, err |-> "", sql |-> sql, params |-> params, ctx |-> ctx]

\* a thrown error together with the context at the throw
Fail(err, ctx) ==
  [ok |-> FALSE, err |-> err, sql |-> <<>>, params |-> <<>>, ctx |-> ctx]

\* obj[k] = v on an insertion-ordered object
ObjSet(o, k, v) ==
  IF \E i \in 1..Len(o) : o[i].k = k
  THEN [i \in 1..Len(o) |-> IF o[i].k = k THEN [k |-> k, v |-> v] ELSE o[i]]
  ELSE Append(o, [k |-> k, v |-> v])

RECURSIVE ObjAssign(_, _)
\* Object.assign(target, src)
ObjAssign(target, src) ==
  IF src = <<>> THEN target
  ELSE ObjAssign(ObjSet(target, Head(src).k, Head(src).v), Tail(src))

-----------------------------------------------------------------------------
(* Dialect layer: placeholders, parameter keys, identifier quoting         *)

Dialects == {"postgresql", "mysql", "mssql", "sqlite"}

\* createDialect: unknown / absent name gives PostgreSQL; the style is kept
\* only when provided ("" is absent)
createDialect(cfg) ==
  [name |-> IF cfg.dialect \in {"mysql", "mssql", "sqlite"} THEN cfg.dialect ELSE "postgresql",
   placeholderStyle |-> cfg.placeholderStyle]

defaultPlaceholderStyle(name) == IF name = "mssql" THEN "at" ELSE "dollar"

\* BaseDialect.getParamPlaceholder; MysqlDialect and SqliteDialect override
\* it to return '?' whatever the style
getParamPlaceholder(d, index) ==
  IF d.name \in {"mysql", "sqlite"} THEN "?"
  ELSE LET style == IF d.placeholderStyle # "" THEN d.placeholderStyle
                    ELSE defaultPlaceholderStyle(d.name)
       IN CASE style = "question" -> "?"
            [] style = "at" -> "@p" \o ToString(index)
            [] OTHER -> "$" \o ToString(index)

getParamKey(index) == "p" \o ToString(index)

\* quoting that leaves an embedded double quote single: the text a part
\* with a double quote must not be emitted as
quoteIdentifier_undoubled(d, key) ==
  CASE d.name = "mysql" -> <<BT>> \o key \o <<BT>>
    [] d.name = "mssql" -> <<"[">> \o key \o <<"]">>
    [] OTHER -> <<"\"">> \o key \o <<"\"">>

quoteIdentifier(d, key) ==
  CASE d.name = "mysql" -> <<BT>> \o key \o <<BT>>
    [] d.name = "mssql" -> <<"[">> \o key \o <<"]">>
    [] OTHER -> <<"\"">> \o ReplaceAll(key, "\"", <<"\"", "\"">>) \o <<"\"">>

\* escapeLike of PostgresDialect, MysqlDialect and SqliteDialect
escapeLike(value) ==
  ReplaceAll(ReplaceAll(ReplaceAll(value, "\\", <<"\\", "\\">>),
                        "%", <<"\\", "%">>),
             "_", <<"\\", "_">>)

MssqlDialect_escapeLike(value) ==
  ReplaceAll(ReplaceAll(ReplaceAll(value, "[", <<"[", "[", "]">>),
                        "%", <<"[", "%", "]">>),
             "_", <<"[", "_", "]">>)

ComparisonSql ==
  [op \in {"eq", "ne", "gt", "gte", "lt", "lte"} |->
     CASE op = "eq" -> "=" [] op = "ne" -> "<>" [] op = "gt" -> ">"
       [] op = "gte" -> ">=" [] op = "lt" -> "<" [] op = "lte" -> "<="]

-----------------------------------------------------------------------------
(* Emitters shared through BaseDialect                                     *)

\* a comparison emitter that writes the value into the text instead of
\* binding it: the behaviour parameterisation excludes
BaseDialect_handleComparison_inline(d, operator, column, value, ctx) ==
  LET ctx1 == [ctx EXCEPT !.paramIndex = @ + 1]
      text == IF value.t = "str" THEN value.c ELSE <<ToString(value.n)>>
  IN IF operator \notin DOMAIN ComparisonSql
     THEN Fail("Unknown comparison operator", ctx1)
     ELSE Ok(column \o <<" ", ComparisonSql[operator], " ", "'">> \o text \o <<"'">>,
             <<>>, ctx1)

BaseDialect_handleComparison(d, operator, column, value, ctx) ==
  LET placeholder == getParamPlaceholder(d, ctx.paramIndex)
      paramKey == getParamKey(ctx.paramIndex)
      ctx1 == [ctx EXCEPT !.paramIndex = @ + 1]
  IN IF operator \notin DOMAIN ComparisonSql
     THEN Fail("Unknown comparison operator", ctx1)
     ELSE Ok(column \o <<" ", ComparisonSql[operator], " ", placeholder>>,
             ObjSet(<<>>, paramKey, value), ctx1)

BaseDialect_handleBetween(d, operator, column, values, ctx) ==
  LET placeholder1 == getParamPlaceholder(d, ctx.paramIndex)
      paramKey1 == getParamKey(ctx.paramIndex)
      placeholder2 == getParamPlaceholder(d, ctx.paramIndex + 1)
      paramKey2 == getParamKey(ctx.paramIndex + 1)
      ctx2 == [ctx EXCEPT !.paramIndex = @ + 2]
      sqlOperator == IF operator = "between" THEN "BETWEEN" ELSE "NOT BETWEEN"
  IN Ok(column \o <<" ", sqlOperator, " ", placeholder1, " AND ", placeholder2>>,
        ObjSet(ObjSet(<<>>, paramKey1, values[1]), paramKey2, values[2]), ctx2)

handleNullCheck(operator, column, ctx) ==
  LET sqlOperator == IF operator = "is_null" THEN "IS NULL" ELSE "IS NOT NULL"
  IN Ok(column \o <<" ", sqlOperator>>, <<>>, ctx)

BaseDialect_handleAnyOf(d, operator, column, value, ctx) ==
  Fail("Operator not supported in dialect", ctx)

RECURSIVE RegisterEach(_, _, _, _, _, _)
\* the loops "for (const value of values) { placeholder; key; paramIndex++;
\* placeholders.push(..); params[key] = value }" of the handleIn / overlaps /
\* any_of emitters; keyIsPlaceholder is the MSSQL variant params[param] = value
RegisterEach(d, values, ctx, phs, params, keyIsPlaceholder) ==
  IF values = <<>> THEN [phs |-> phs, params |-> params, ctx |-> ctx]
  ELSE LET placeholder == getParamPlaceholder(d, ctx.paramIndex)
           key == IF keyIsPlaceholder THEN placeholder ELSE getParamKey(ctx.paramIndex)
       IN RegisterEach(d, Tail(values), [ctx EXCEPT !.paramIndex = @ + 1],
                       Append(phs, <<placeholder>>),
                       ObjSet(params, key, Head(values)), keyIsPlaceholder)

-----------------------------------------------------------------------------
(* PostgresDialect                                                         *)

PostgresDialect_simpleOp(d, column, sqlOp, value, ctx) ==
  LET placeholder == getParamPlaceholder(d, ctx.paramIndex)
      paramKey == getParamKey(ctx.paramIndex)
  IN Ok(column \o <<" ", sqlOp, " ", placeholder>>,
        ObjSet(<<>>, paramKey, value), [ctx EXCEPT !.paramIndex = @ + 1])

\* the jsonb cast of handleComparison (json_contains), handleArrayContains
\* and handleContainedBy: `?::jsonb` with a serialised value under the
\* question style, `$n::jsonb` with the value itself otherwise
PostgresDialect_jsonbCast(d, column, sqlOp, value, stringify, ctx) ==
  LET placeholder == getParamPlaceholder(d, ctx.paramIndex)
      paramKey == getParamKey(ctx.paramIndex)
      paramValue == IF placeholder = "?" /\ stringify THEN JSON_stringify(value) ELSE value
  IN Ok(column \o <<" ", sqlOp, " ", placeholder, "::jsonb">>,
        ObjSet(<<>>, paramKey, paramValue), [ctx EXCEPT !.paramIndex = @ + 1])

PostgresDialect_handleComparison(d, operator, column, value, ctx) ==
  CASE operator = "json_contains" ->
         PostgresDialect_jsonbCast(d, column, "@>", value, isArray(value), ctx)
    [] operator = "json_has_key" -> PostgresDialect_simpleOp(d, column, "?", value, ctx)
    [] operator = "json_has_any_keys" -> PostgresDialect_simpleOp(d, column, "?|", value, ctx)
    [] OTHER -> BaseDialect_handleComparison(d, operator, column, value, ctx)

PostgresDialect_handleAnyOf(d, operator, column, value, ctx) ==
  LET placeholder == getParamPlaceholder(d, ctx.paramIndex)
      paramKey == getParamKey(ctx.paramIndex)
      ctx1 == [ctx EXCEPT !.paramIndex = @ + 1]
  IN IF ctx.fieldType = "jsonb"
     THEN IF ~isArray(value)
          THEN Fail("any_of operator requires array value for JSONB fields", ctx1)
          ELSE LET r == RegisterEach(d, value.xs, ctx1, <<>>, <<>>, FALSE)
                   arrayLiteral == <<"ARRAY[">> \o Join(r.phs, <<", ">>) \o <<"]">>
                   sqlOp == IF operator = "any_of" THEN "EXISTS" ELSE "NOT EXISTS"
               IN Ok(<<sqlOp, " (SELECT 1 FROM jsonb_array_elements_text(">> \o column
                       \o <<") AS elem WHERE elem = ANY(">> \o arrayLiteral \o <<"))">>,
                     r.params, r.ctx)
     ELSE LET sqlOp == IF operator = "any_of" THEN "= ANY" ELSE "<> ALL"
          IN Ok(<<placeholder, " ", sqlOp, "(">> \o column \o <<")">>,
                ObjSet(<<>>, paramKey, value), ctx1)

PostgresDialect_handleString(d, operator, column, value, ctx, caseSensitive) ==
  LET placeholder == getParamPlaceholder(d, ctx.paramIndex)
      paramKey == getParamKey(ctx.paramIndex)
      ctx1 == [ctx EXCEPT !.paramIndex = @ + 1]
      likeOp == IF caseSensitive THEN "LIKE" ELSE "ILIKE"
      sqlOperator ==
        CASE operator \in {"starts_with", "ends_with", "contains"} -> likeOp
          [] operator = "like" -> "LIKE"
          [] operator = "ilike" -> "ILIKE"
          [] OTHER -> IF caseSensitive THEN "~" ELSE "~*"
      paramValue ==
        CASE operator = "starts_with" -> JStr(escapeLike(value.c) \o <<"%">>)
          [] operator = "ends_with" -> JStr(<<"%">> \o escapeLike(value.c))
          [] operator = "contains" -> JStr(<<"%">> \o escapeLike(value.c) \o <<"%">>)
          [] OTHER -> value
  IN IF operator \notin {"starts_with", "ends_with", "contains", "like", "ilike", "regex"}
     THEN Fail("Unknown string operator", ctx1)
     ELSE Ok(column \o <<" ", sqlOperator, " ", placeholder>>,
             ObjSet(<<>>, paramKey, paramValue), ctx1)

PostgresDialect_handleArrayContains(d, column, values, ctx) ==
  IF ctx.fieldType = "jsonb"
  THEN PostgresDialect_jsonbCast(d, column, "@>", JList(values), TRUE, ctx)
  ELSE PostgresDialect_simpleOp(d, column, "@>", JList(values), ctx)

PostgresDialect_handleContainedBy(d, column, values, ctx) ==
  IF ctx.fieldType = "jsonb"
  THEN PostgresDialect_jsonbCast(d, column, "<@", JList(values), TRUE, ctx)
  ELSE PostgresDialect_simpleOp(d, column, "<@", JList(values), ctx)

PostgresDialect_handleOverlaps(d, column, values, ctx) ==
  IF ctx.fieldType = "jsonb"
  THEN LET r == RegisterEach(d, values, ctx, <<>>, <<>>, FALSE)
           arrayLiteral == <<"ARRAY[">> \o Join(r.phs, <<", ">>) \o <<"]">>
       IN Ok(<<"EXISTS (SELECT 1 FROM jsonb_array_elements_text(">> \o column
               \o <<") AS elem WHERE elem = ANY(">> \o arrayLiteral \o <<"))">>,
             r.params, r.ctx)
  ELSE PostgresDialect_simpleOp(d, column, "&&", JList(values), ctx)

PostgresDialect_handleIn(d, operator, column, values, ctx) ==
  IF ctx.fieldType \in {"array", "jsonb"}
  THEN LET res == PostgresDialect_handleOverlaps(d, column, values, ctx)
       IN IF operator = "not_in"
          THEN Ok(<<"NOT (">> \o res.sql \o <<")">>, res.params, res.ctx)
          ELSE res
  ELSE IF Len(values) = 0
  THEN Ok(<<IF operator = "in" THEN "1=0" ELSE "1=1">>, <<>>, ctx)
  ELSE LET r == RegisterEach(d, values, ctx, <<>>, <<>>, FALSE)
           sqlOperator == IF operator = "in" THEN "IN" ELSE "NOT IN"
       IN Ok(column \o <<" ", sqlOperator, " (">> \o Join(r.phs, <<", ">>) \o <<")">>,
             r.params, r.ctx)

PostgresDialect_handleArray(d, operator, column, values, ctx) ==
  CASE operator \in {"in", "not_in"} -> PostgresDialect_handleIn(d, operator, column, values, ctx)
    [] operator = "contains" -> PostgresDialect_handleArrayContains(d, column, values, ctx)
    [] operator = "contained_by" -> PostgresDialect_handleContainedBy(d, column, values, ctx)
    [] operator = "overlaps" -> PostgresDialect_handleOverlaps(d, column, values, ctx)
    [] OTHER -> Fail("Unknown array operator", ctx)

-----------------------------------------------------------------------------
(* MssqlDialect                                                            *)

MssqlDialect_handleString(d, operator, column, value, ctx) ==
  LET param == getParamPlaceholder(d, ctx.paramIndex)
      ctx1 == [ctx EXCEPT !.paramIndex = @ + 1]
      paramValue ==
        CASE operator = "starts_with" -> JStr(MssqlDialect_escapeLike(value.c) \o <<"%">>)
          [] operator = "ends_with" -> JStr(<<"%">> \o MssqlDialect_escapeLike(value.c))
          [] operator = "contains" -> JStr(<<"%">> \o MssqlDialect_escapeLike(value.c) \o <<"%">>)
          [] OTHER -> value
  IN CASE operator = "regex" -> Fail("Regex not supported in MSSQL", ctx1)
       [] operator \notin {"starts_with", "ends_with", "contains", "like", "ilike"} ->
            Fail("Unknown string operator", ctx1)
       [] OTHER -> Ok(column \o <<" ", "LIKE", " ", param>>,
                      ObjSet(<<>>, param, paramValue), ctx1)

MssqlDialect_handleIn(d, operator, column, values, ctx) ==
  IF Len(values) = 0
  THEN Ok(<<IF operator = "in" THEN "1=0" ELSE "1=1">>, <<>>, ctx)
  ELSE LET r == RegisterEach(d, values, ctx, <<>>, <<>>, TRUE)
           sqlOperator == IF operator = "in" THEN "IN" ELSE "NOT IN"
       IN Ok(column \o <<" ", sqlOperator, " (">> \o Join(r.phs, <<", ">>) \o <<")">>,
             r.params, r.ctx)

MssqlDialect_handleArray(d, operator, column, values, ctx) ==
  CASE operator \in {"in", "not_in"} -> MssqlDialect_handleIn(d, operator, column, values, ctx)
    [] operator \in {"contains", "contained_by", "overlaps"} ->
         Fail("Array operator is not supported in MSSQL dialect", ctx)
    [] OTHER -> Fail("Operator not supported in MSSQL dialect", ctx)

MssqlDialect_handleComparison(d, operator, column, value, ctx) ==
  IF operator \in {"json_contains", "json_has_key", "json_has_any_keys"}
  THEN Fail("JSON operator is not supported in MSSQL dialect", ctx)
  ELSE BaseDialect_handleComparison(d, operator, column, value, ctx)

-----------------------------------------------------------------------------
(* MysqlDialect and SqliteDialect: '?' placeholders, keys p{i}             *)

\* handleString of MysqlDialect and of SqliteDialect (same body; both emit
\* LIKE for like / ilike and REGEXP for regex)
QDialect_handleString(d, operator, column, value, ctx) ==
  LET key == "p" \o ToString(ctx.paramIndex)
      ctx1 == [ctx EXCEPT !.paramIndex = @ + 1]
      sqlOperator == IF operator = "regex" THEN "REGEXP" ELSE "LIKE"
      paramValue ==
        CASE operator = "starts_with" -> JStr(escapeLike(value.c) \o <<"%">>)
          [] operator = "ends_with" -> JStr(<<"%">> \o escapeLike(value.c))
          [] operator = "contains" -> JStr(<<"%">> \o escapeLike(value.c) \o <<"%">>)
          [] OTHER -> value
  IN IF operator \notin {"starts_with", "ends_with", "contains", "like", "ilike", "regex"}
     THEN Fail("Unknown string operator", ctx1)
     ELSE Ok(column \o <<" ", sqlOperator, " ", "?">>, ObjSet(<<>>, key, paramValue), ctx1)

\* handleIn of MysqlDialect and of SqliteDialect
QDialect_handleIn(d, operator, column, values, ctx) ==
  IF Len(values) = 0
  THEN Ok(<<IF operator = "in" THEN "1=0" ELSE "1=1">>, <<>>, ctx)
  ELSE LET r == RegisterEach(d, values, ctx, <<>>, <<>>, FALSE)
           sqlOperator == IF operator = "in" THEN "IN" ELSE "NOT IN"
       IN Ok(column \o <<" ", sqlOperator, " (">> \o Join(r.phs, <<", ">>) \o <<")">>,
             r.params, r.ctx)

\* handleBetween of MysqlDialect and of SqliteDialect
QDialect_handleBetween(d, operator, column, values, ctx) ==
  LET p1 == "p" \o ToString(ctx.paramIndex)
      p2 == "p" \o ToString(ctx.paramIndex + 1)
      sqlOperator == IF operator = "between" THEN "BETWEEN" ELSE "NOT BETWEEN"
  IN Ok(column \o <<" ", sqlOperator, " ", "?", " AND ", "?">>,
        ObjSet(ObjSet(<<>>, p1, values[1]), p2, values[2]),
        [ctx EXCEPT !.paramIndex = @ + 2])

\* the eq..lte branch of handleComparison of MysqlDialect and SqliteDialect
QDialect_basicComparison(column, operator, value, ctx) ==
  LET key == "p" \o ToString(ctx.paramIndex)
  IN Ok(column \o <<" ", ComparisonSql[operator], " ", "?">>,
        ObjSet(<<>>, key, value), [ctx EXCEPT !.paramIndex = @ + 1])

MysqlDialect_handleJsonContains(column, value, ctx) ==
  LET key == "p" \o ToString(ctx.paramIndex)
  IN Ok(<<"JSON_CONTAINS(">> \o column \o <<", ", "?", ")">>,
        ObjSet(<<>>, key, value), [ctx EXCEPT !.paramIndex = @ + 1])

MysqlDialect_handleComparison(d, operator, column, value, ctx) ==
  CASE operator \in DOMAIN ComparisonSql -> QDialect_basicComparison(column, operator, value, ctx)
    [] operator = "json_contains" -> MysqlDialect_handleJsonContains(column, value, ctx)
    [] OTHER -> BaseDialect_handleComparison(d, operator, column, value, ctx)

MysqlDialect_handleArray(d, operator, column, values, ctx) ==
  CASE operator \in {"in", "not_in"} -> QDialect_handleIn(d, operator, column, values, ctx)
    [] operator = "contains" ->
         MysqlDialect_handleJsonContains(column, JSON_stringify(JList(values)), ctx)
    [] operator \in {"contained_by", "overlaps"} ->
         Fail("Operator is not supported in MySQL dialect", ctx)
    [] OTHER -> Fail("Operator not supported in MySQL dialect", ctx)

SqliteDialect_handleComparison(d, operator, column, value, ctx) ==
  CASE operator \in DOMAIN ComparisonSql -> QDialect_basicComparison(column, operator, value, ctx)
    [] operator \in {"json_contains", "json_has_key", "json_has_any_keys"} ->
         Fail("JSON operator is not supported in SQLite dialect", ctx)
    [] OTHER -> BaseDialect_handleComparison(d, operator, column, value, ctx)

SqliteDialect_handleArray(d, operator, column, values, ctx) ==
  CASE operator \in {"in", "not_in"} -> QDialect_handleIn(d, operator, column, values, ctx)
    [] operator \in {"contains", "contained_by", "overlaps"} ->
         Fail("Array operator is not supported in SQLite dialect", ctx)
    [] OTHER -> Fail("Operator not supported in SQLite dialect", ctx)

-----------------------------------------------------------------------------
(* Virtual dispatch on the dialect object                                  *)

handleComparison(d, operator, column, value, ctx) ==
  CASE d.name = "postgresql" -> PostgresDialect_handleComparison(d, operator, column, value, ctx)
    [] d.name = "mssql" -> MssqlDialect_handleComparison(d, operator, column, value, ctx)
    [] d.name = "mysql" -> MysqlDialect_handleComparison(d, operator, column, value, ctx)
    [] OTHER -> SqliteDialect_handleComparison(d, operator, column, value, ctx)

handleBetween(d, operator, column, values, ctx) ==
  IF d.name \in {"mysql", "sqlite"}
  THEN QDialect_handleBetween(d, operator, column, values, ctx)
  ELSE BaseDialect_handleBetween(d, operator, column, values, ctx)

\* an array emitter no dialect overrides: all of them emit as PostgreSQL
handleArray_notOverridden(d, operator, column, values, ctx) ==
  PostgresDialect_handleArray(d, operator, column, values, ctx)

handleArray(d, operator, column, values, ctx) ==
  CASE d.name = "postgresql" -> PostgresDialect_handleArray(d, operator, column, values, ctx)
    [] d.name = "mssql" -> MssqlDialect_handleArray(d, operator, column, values, ctx)
    [] d.name = "mysql" -> MysqlDialect_handleArray(d, operator, column, values, ctx)
    [] OTHER -> SqliteDialect_handleArray(d, operator, column, values, ctx)

handleAnyOf(d, operator, column, value, ctx) ==
  IF d.name = "postgresql"
  THEN PostgresDialect_handleAnyOf(d, operator, column, value, ctx)
  ELSE BaseDialect_handleAnyOf(d, operator, column, value, ctx)

handleString(d, operator, column, value, ctx, caseSensitive) ==
  CASE d.name = "postgresql" -> PostgresDialect_handleString(d, operator, column, value, ctx, caseSensitive)
    [] d.name = "mssql" -> MssqlDialect_handleString(d, operator, column, value, ctx)
    [] OTHER -> QDialect_handleString(d, operator, column, value, ctx)

-----------------------------------------------------------------------------
(* Sanitizer (security/sanitizer.ts)                                       *)

\* a key list that also treats constructor and prototype as dangerous
DANGEROUS_KEYS_wide == {"__proto__", "constructor", "prototype"}

DANGEROUS_KEYS == {"__proto__"}

RECURSIVE sanitizeInput(_)
\* values here are trees, so the visited-set of the source never fires
sanitizeInput(input) ==
  CASE input.t = "list" ->
         JList([i \in 1..Len(input.xs) |-> sanitizeInput(input.xs[i])])
    [] input.t = "obj" ->
         LET keep == SelectSeq([i \in 1..Len(input.ks) |-> i],
                               LAMBDA i : input.ks[i] \notin DANGEROUS_KEYS)
         IN JObj([j \in 1..Len(keep) |-> input.ks[keep[j]]],
                 [j \in 1..Len(keep) |-> sanitizeInput(input.xs[keep[j]])])
    [] OTHER -> input

\* validateParameterValue: "" when accepted, else the error thrown
validateParameterValue(value) ==
  IF value.t = "str" /\ NUL \in SeqToSet(value.c)
  THEN "Parameter value contains null byte"
  ELSE ""

-----------------------------------------------------------------------------
(* SchemaValidator (schema/validator.ts).  Each operation yields "" when   *)
(* it returns normally and the thrown SchemaValidationError otherwise.     *)

\* the first error of a sequence of checks performed in order
FirstErr(errs) ==
  IF \E i \in 1..Len(errs) : errs[i] # ""
  THEN errs[CHOOSE i \in 1..Len(errs) : errs[i] # "" /\ \A j \in 1..(i-1) : errs[j] = ""]
  ELSE ""

getFieldSchema(fieldName) ==
  IF fieldName \notin DOMAIN Schema THEN "Unknown field"
  ELSE IF Schema[fieldName].filterable = FALSE THEN "Field is not filterable"
  ELSE ""

\* an operator check that only looks the field up: every operator passes
validateOperator_anyOperator(fieldName, operator) ==
  getFieldSchema(fieldName)

validateOperator(fieldName, operator) ==
  IF getFieldSchema(fieldName) # "" THEN getFieldSchema(fieldName)
  ELSE IF operator \notin Schema[fieldName].operators THEN "Operator not allowed for field"
  ELSE ""

validateOptions(options, value) ==
  IF options.strict = FALSE THEN ""
  ELSE LET values == IF isArray(value) THEN SeqToSet(value.xs) ELSE {value}
       IN IF \E v \in values : v \notin options.items THEN "Invalid option value" ELSE ""

validateConstraints(constraints, value) ==
  FirstErr(<<
    IF value.t = "str" /\ constraints.minLength # Undefined /\ Len(value.c) < constraints.minLength
      THEN "Value too short" ELSE "",
    IF value.t = "str" /\ constraints.maxLength # Undefined /\ Len(value.c) > constraints.maxLength
      THEN "Value too long" ELSE "",
    IF value.t = "num" /\ constraints.min # Undefined /\ value.n < constraints.min
      THEN "Value too small" ELSE "",
    IF value.t = "num" /\ constraints.max # Undefined /\ value.n > constraints.max
      THEN "Value too large" ELSE "",
    IF isArray(value) /\ constraints.minItems # Undefined /\ Len(value.xs) < constraints.minItems
      THEN "Array too short" ELSE "",
    IF isArray(value) /\ constraints.maxItems # Undefined /\ Len(value.xs) > constraints.maxItems
      THEN "Array too long" ELSE "">>)

\* a type check that accepts every value
validateType_anyType(type, value) == ""

\* numbers of the model are integers, so the NaN and Number.isInteger tests
\* of the number / integer cases always pass
validateType(type, value) ==
  CASE type \in {"string", "text"} -> IF value.t # "str" THEN "Expected string" ELSE ""
    [] type \in {"number", "integer", "decimal"} -> IF value.t # "num" THEN "Expected number" ELSE ""
    [] type = "boolean" -> IF value.t # "bool" THEN "Expected boolean" ELSE ""
    [] type = "array" -> IF ~isArray(value) THEN "Expected array" ELSE ""
    [] OTHER -> ""

\* a validator for which no field is nullable
validateSingleValue_neverNull(field, operator, value) ==
  IF isNullV(value)
  THEN IF operator \notin {"is_null", "is_not_null"}
       THEN "Null value not allowed" ELSE ""
  ELSE FirstErr(<<
         IF field.options.defined THEN validateOptions(field.options, value) ELSE "",
         IF field.constraints.defined /\ operator \notin {"in", "not_in"}
           THEN validateConstraints(field.constraints, value) ELSE "",
         IF operator \in {"any_of", "not_any_of", "any_ilike", "not_any_ilike"} /\ field.type = "array"
           THEN "" ELSE validateType(field.type, value)>>)

validateSingleValue(field, operator, value) ==
  IF isNullV(value)
  THEN IF field.nullable # TRUE /\ operator \notin {"is_null", "is_not_null"}
       THEN "Null value not allowed" ELSE ""
  ELSE FirstErr(<<
         IF field.options.defined THEN validateOptions(field.options, value) ELSE "",
         IF field.constraints.defined /\ operator \notin {"in", "not_in"}
           THEN validateConstraints(field.constraints, value) ELSE "",
         IF operator \in {"any_of", "not_any_of", "any_ilike", "not_any_ilike"} /\ field.type = "array"
           THEN "" ELSE validateType(field.type, value)>>)

validateValue(fieldName, operator, value) ==
  IF getFieldSchema(fieldName) # "" THEN getFieldSchema(fieldName)
  ELSE LET field == Schema[fieldName]
       IN IF operator \in {"in", "not_in"} /\ isArray(value)
          THEN FirstErr([i \in 1..Len(value.xs) |-> validateSingleValue(field, operator, value.xs[i])])
          ELSE IF operator \in {"between", "not_between"} /\ isArray(value)
          THEN IF Len(value.xs) # 2 THEN "Operator requires an array with exactly 2 values"
               ELSE FirstErr([i \in 1..Len(value.xs) |-> validateSingleValue(field, operator, value.xs[i])])
          ELSE validateSingleValue(field, operator, value)

-----------------------------------------------------------------------------
(* Transform engine (utils/transforms.ts)                                  *)

toLowerCase(c) == [i \in 1..Len(c) |-> CASE c[i] = "A" -> "a" [] c[i] = "B" -> "b" [] OTHER -> c[i]]

toUpperCase(c) == [i \in 1..Len(c) |-> CASE c[i] = "a" -> "A" [] c[i] = "b" -> "B" [] OTHER -> c[i]]

RECURSIVE trimStart(_)
trimStart(c) == IF c # <<>> /\ Head(c) = " " THEN trimStart(Tail(c)) ELSE c

RECURSIVE trimEnd(_)
trimEnd(c) == IF c # <<>> /\ c[Len(c)] = " " THEN trimEnd(SubSeq(c, 1, Len(c) - 1)) ELSE c

applyValueTransform(value, fn) ==
  IF value.t # "str" THEN value
  ELSE CASE fn = "lower" -> JStr(toLowerCase(value.c))
         [] fn = "upper" -> JStr(toUpperCase(value.c))
         [] fn = "trim" -> JStr(trimEnd(trimStart(value.c)))
         [] fn = "ltrim" -> JStr(trimStart(value.c))
         [] fn = "rtrim" -> JStr(trimEnd(value.c))
         [] OTHER -> value

RECURSIVE applyValueTransforms(_, _)
applyValueTransforms(value, transforms) ==
  IF transforms = <<>> THEN value
  ELSE applyValueTransforms(applyValueTransform(value, Head(transforms)), Tail(transforms))

\* [err, column]: the transformed column expression or the error thrown
applyBuiltinTransform(column, fn, dialect) ==
  CASE fn = "lower" -> [err |-> "", column |-> <<"LOWER(">> \o column \o <<")">>]
    [] fn = "upper" -> [err |-> "", column |-> <<"UPPER(">> \o column \o <<")">>]
    [] fn = "trim" -> [err |-> "", column |-> <<"TRIM(">> \o column \o <<")">>]
    [] fn = "ltrim" -> [err |-> "", column |-> <<"LTRIM(">> \o column \o <<")">>]
    [] fn = "rtrim" -> [err |-> "", column |-> <<"RTRIM(">> \o column \o <<")">>]
    [] fn = "unaccent" ->
         IF dialect = "postgresql"
         THEN [err |-> "", column |-> <<"unaccent(">> \o column \o <<")">>]
         ELSE [err |-> "Transform 'unaccent' is only supported in PostgreSQL", column |-> column]
    [] fn = "date" -> [err |-> "", column |-> <<"DATE(">> \o column \o <<")">>]
    [] fn \in {"year", "month", "day"} ->
         LET unit == CASE fn = "year" -> "YEAR" [] fn = "month" -> "MONTH" [] OTHER -> "DAY"
         IN IF dialect = "mysql"
            THEN [err |-> "", column |-> <<unit, "(">> \o column \o <<")">>]
            ELSE [err |-> "", column |-> <<"EXTRACT(", unit, " FROM ">> \o column \o <<")">>]
    [] OTHER -> [err |-> "", column |-> column]

RECURSIVE applyTransforms(_, _, _)
applyTransforms(column, transforms, dialect) ==
  IF transforms = <<>> THEN [err |-> "", column |-> column]
  ELSE LET r == applyBuiltinTransform(column, Head(transforms), dialect)
       IN IF r.err # "" THEN r ELSE applyTransforms(r.column, Tail(transforms), dialect)

-----------------------------------------------------------------------------
(* JsonLogicCompiler (compiler.ts)                                         *)

DefaultMaxDepth == 5

DefaultMaxConditions == 100

\* the constructor: caps fall back to the defaults when the configuration
\* does not give them (the schema of the model declares no settings)
JsonLogicCompiler(cfg) ==
  [dialect |-> createDialect(cfg),
   maxDepth |-> IF cfg.maxDepth # Undefined THEN cfg.maxDepth ELSE DefaultMaxDepth,
   maxConditions |-> IF cfg.maxConditions # Undefined THEN cfg.maxConditions
                     ELSE DefaultMaxConditions]

isVar(value) == value.t = "obj" /\ "var" \in SeqToSet(value.ks)

\* the member value of the first "var" key
extractVarName(varRef) ==
  LET name == varRef.xs[CHOOSE i \in 1..Len(varRef.ks) : varRef.ks[i] = "var"]
  IN CASE name.t = "str" -> name.c
       [] name.t = "num" -> <<ToString(name.n)>>
       [] OTHER -> <<>>

\* names every object literal inherits: `jsonOp in JSON_LOGIC_TO_OPERATOR`
\* is true for them and the lookup yields the inherited function
ObjectPrototypeMembers == {"constructor", "toString", "valueOf", "hasOwnProperty"}

InheritedFunction == "function () { [native code] }"

\* [err, operator]
mapOperator(jsonOp, field) ==
  IF jsonOp \in DOMAIN JSON_LOGIC_TO_OPERATOR
  THEN [err |-> "", operator |-> JSON_LOGIC_TO_OPERATOR[jsonOp]]
  ELSE IF jsonOp \in ObjectPrototypeMembers
  THEN [err |-> "", operator |-> InheritedFunction]
  ELSE IF jsonOp \in field.operators
  THEN [err |-> "", operator |-> jsonOp]
  ELSE [err |-> "Unknown operator", operator |-> jsonOp]

\* the cast wrapped around a JSON path, by field type and dialect
jsonPathCast(path, type, dialect) ==
  CASE type = "boolean" /\ dialect = "postgresql" -> <<"(", path, ")::boolean">>
    [] type \in {"number", "integer", "decimal"} ->
         CASE dialect = "postgresql" -> <<"(", path, ")::numeric">>
           [] dialect = "mysql" -> <<"CAST(", path, " AS DECIMAL)">>
           [] dialect = "sqlite" -> <<"CAST(", path, " AS REAL)">>
           [] OTHER -> <<path>>
    [] type \in {"date", "datetime", "timestamp"} ->
         CASE dialect = "postgresql" ->
                IF type = "date" THEN <<"(", path, ")::date">> ELSE <<"(", path, ")::timestamp">>
           [] dialect = "mysql" ->
                IF type = "date" THEN <<"CAST(", path, " AS DATE)">>
                ELSE <<"CAST(", path, " AS DATETIME)">>
           [] dialect = "sqlite" -> <<"CAST(", path, " AS TEXT)">>
           [] OTHER -> <<path>>
    [] type = "uuid" /\ dialect = "postgresql" -> <<"(", path, ")::uuid">>
    [] OTHER -> <<path>>

\* [err, column]
buildColumnRef(d, fieldName, field) ==
  IF field.computed THEN [err |-> "", column |-> <<"(", field.expression, ")">>]
  ELSE IF field.jsonPath # ""
  THEN [err |-> "", column |-> jsonPathCast(field.jsonPath, field.type, d.name)]
  ELSE LET columnName == IF field.column # <<>> THEN field.column ELSE fieldName
           parts == Split(columnName, ".")
           column == Join([i \in 1..Len(parts) |-> quoteIdentifier(d, parts[i])], <<".">>)
       IN IF field.transformInput # <<>>
          THEN applyTransforms(column, field.transformInput, d.name)
          ELSE [err |-> "", column |-> column]

\* the context as it is while a dialect emitter runs
received(ctx) == [ctx EXCEPT !.emitterFieldTypes = Append(@, ctx.fieldType)]

\* a handler that leaves the field type of its condition in the context
restoreFieldType_skipped(r, previousFieldType) == r

\* finally { context.fieldType = previousFieldType }
restoreFieldType(r, previousFieldType) == [r EXCEPT !.ctx.fieldType = previousFieldType]

\* the operator dispatch of handleCondition, entered with conditionCount
\* already incremented; ctx.fieldType is the field's type inside the try
\* block and the any_of block only, and is restored on the way out
dispatchCondition(d, operator, fieldName, field, value, value2, column, ctx) ==
  LET previousFieldType == ctx.fieldType
      typed == received([ctx EXCEPT !.fieldType = field.type])
      untyped == received(ctx)
      restore(r) == restoreFieldType(r, previousFieldType)
  IN CASE operator \in UNARY_OPERATORS -> restore(handleNullCheck(operator, column, typed))
       [] operator \in RANGE_OPERATORS ->
            IF isNullV(value2) THEN Fail("requires two values", ctx)
            ELSE IF validateValue(fieldName, operator, value2) # ""
            THEN Fail(validateValue(fieldName, operator, value2), ctx)
            ELSE restore(handleBetween(d, operator, column, <<value, value2>>, typed))
       [] operator = "contains" /\ field.type \in {"array", "jsonb"} ->
            IF ~isArray(value) THEN Fail("Operator 'contains' on array field requires an array value", ctx)
            ELSE restore(handleArray(d, operator, column, value.xs, typed))
       [] operator \in ARRAY_OPERATORS ->
            IF ~isArray(value) THEN Fail("requires array value", ctx)
            ELSE restore(handleArray(d, operator, column, value.xs, typed))
       [] operator \in {"any_of", "not_any_of"} ->
            restore(handleAnyOf(d, operator, column, value, typed))
       [] operator \in {"like", "ilike", "starts_with", "ends_with", "contains", "regex"} ->
            IF value.t # "str" THEN Fail("requires string value", ctx)
            ELSE handleString(d, operator, column, value, untyped, field.caseSensitive)
       [] isNullV(value) /\ operator \in {"eq", "ne"} ->
            handleNullCheck(IF operator = "eq" THEN "is_null" ELSE "is_not_null", column, untyped)
       [] OTHER -> handleComparison(d, operator, column, value, untyped)

handleCondition(this, jsonOperator, operands, ctx) ==
  LET fieldRef == operands.xs[1]
      fieldName == extractVarName(fieldRef)
      field == Schema[fieldName]
      mapped == mapOperator(jsonOperator, field)
      operator == mapped.operator
      rawValue == IF Len(operands.xs) > 1 THEN operands.xs[2] ELSE JNull
      rawValue2 == IF Len(operands.xs) > 2 THEN operands.xs[3] ELSE JNull
      valueErr ==
        IF operator \in UNARY_OPERATORS THEN ""
        ELSE FirstErr(<<IF ~isNullV(rawValue) THEN validateParameterValue(rawValue) ELSE "",
                        IF ~isNullV(rawValue2) THEN validateParameterValue(rawValue2) ELSE "",
                        validateValue(fieldName, operator, rawValue)>>)
      transformed(v) ==
        IF field.transformInput # <<>> /\ ~isNullV(v)
        THEN applyValueTransforms(v, field.transformInput) ELSE v
      col == buildColumnRef(this.dialect, fieldName, field)
      counted == [ctx EXCEPT !.conditionCount = @ + 1]
  IN CASE ~isArray(operands) \/ Len(operands.xs) < 1 -> Fail("Invalid operands for operator", ctx)
       [] ~isVar(fieldRef) -> Fail("First operand must be a field reference (var)", ctx)
       [] getFieldSchema(fieldName) # "" -> Fail(getFieldSchema(fieldName), ctx)
       [] mapped.err # "" -> Fail(mapped.err, ctx)
       [] validateOperator(fieldName, operator) # "" -> Fail(validateOperator(fieldName, operator), ctx)
       [] valueErr # "" -> Fail(valueErr, ctx)
       [] col.err # "" -> Fail(col.err, ctx)
       [] OTHER -> dispatchCondition(this.dialect, operator, fieldName, field,
                                     transformed(rawValue), transformed(rawValue2),
                                     col.column, counted)

\* operators/logical.ts
handleAnd(conditions) ==
  IF Len(conditions) = 0 THEN [sql |-> <<"1=1">>, params |-> <<>>]
  ELSE [sql |-> <<"(">>
                \o Join([i \in 1..Len(conditions) |-> <<"(">> \o conditions[i].sql \o <<")">>],
                        <<" AND ">>)
                \o <<")">>,
        params |-> LET RECURSIVE merge(_, _)
                       merge(acc, i) == IF i > Len(conditions) THEN acc
                                        ELSE merge(ObjAssign(acc, conditions[i].params), i + 1)
                   IN merge(<<>>, 1)]

handleOr(conditions) ==
  IF Len(conditions) = 0 THEN [sql |-> <<"1=0">>, params |-> <<>>]
  ELSE [sql |-> <<"(">>
                \o Join([i \in 1..Len(conditions) |-> <<"(">> \o conditions[i].sql \o <<")">>],
                        <<" OR ">>)
                \o <<")">>,
        params |-> LET RECURSIVE merge(_, _)
                       merge(acc, i) == IF i > Len(conditions) THEN acc
                                        ELSE merge(ObjAssign(acc, conditions[i].params), i + 1)
                   IN merge(<<>>, 1)]

handleNot(condition) ==
  [sql |-> <<"NOT (">> \o condition.sql \o <<")">>, params |-> condition.params]

\* the depth guard taken one level too early
depthExceeded_atLimit(this, ctx) == ctx.depth >= this.maxDepth

\* the guards at the head of visit
depthExceeded(this, ctx) == ctx.depth > this.maxDepth

conditionCountExceeded(this, ctx) == ctx.conditionCount > this.maxConditions

RECURSIVE visit(_, _, _)
RECURSIVE visitOperands(_, _, _, _)

\* the loop of handleLogicalAnd / handleLogicalOr: visit each operand with
\* the shared context, then count it; stops at the first throw
visitOperands(this, operands, ctx, conditions) ==
  IF operands = <<>> THEN [ok |-> TRUE, err |-> "", conditions |-> conditions, ctx |-> ctx]
  ELSE LET r == visit(this, Head(operands), ctx)
       IN IF ~r.ok THEN [ok |-> FALSE, err |-> r.err, conditions |-> conditions, ctx |-> r.ctx]
          ELSE visitOperands(this, Tail(operands),
                             [r.ctx EXCEPT !.conditionCount = @ + 1],
                             Append(conditions, r))

handleLogicalAnd(this, operands, ctx) ==
  IF ~isArray(operands) THEN Fail("'and' operator requires array", ctx)
  ELSE LET r == visitOperands(this, operands.xs, [ctx EXCEPT !.depth = @ + 1], <<>>)
           out == handleAnd(r.conditions)
       IN IF ~r.ok THEN Fail(r.err, r.ctx)
          ELSE Ok(out.sql, out.params, [r.ctx EXCEPT !.depth = @ - 1])

handleLogicalOr(this, operands, ctx) ==
  IF ~isArray(operands) THEN Fail("'or' operator requires array", ctx)
  ELSE LET r == visitOperands(this, operands.xs, [ctx EXCEPT !.depth = @ + 1], <<>>)
           out == handleOr(r.conditions)
       IN IF ~r.ok THEN Fail(r.err, r.ctx)
          ELSE Ok(out.sql, out.params, [r.ctx EXCEPT !.depth = @ - 1])

handleLogicalNot(this, operand, ctx) ==
  LET r == visit(this, operand, [ctx EXCEPT !.depth = @ + 1])
      out == handleNot(r)
  IN IF ~r.ok THEN r
     ELSE Ok(out.sql, out.params,
             [r.ctx EXCEPT !.conditionCount = @ + 1, !.depth = @ - 1])

\* Object.keys(rule)[0]: the first member key of an object, "0" for a
\* non-empty array, "" (undefined) when there is none
firstKey(v) ==
  CASE v.t = "obj" /\ v.ks # <<>> -> v.ks[1]
    [] v.t = "list" /\ v.xs # <<>> -> "0"
    [] OTHER -> ""

visit(this, node, ctx) ==
  LET operator == firstKey(node)
      operands == node.xs[1]
  IN CASE depthExceeded(this, ctx) -> Fail("Maximum nesting depth exceeded", ctx)
       [] conditionCountExceeded(this, ctx) -> Fail("Maximum condition count exceeded", ctx)
       [] node.t \notin {"obj", "list"} -> Fail("Invalid rule: expected object", ctx)
       [] operator = "" -> Fail("Invalid rule: empty object", ctx)
       [] operator = "and" -> handleLogicalAnd(this, operands, ctx)
       [] operator = "or" -> handleLogicalOr(this, operands, ctx)
       [] operator \in {"!", "not"} -> handleLogicalNot(this, operands, ctx)
       [] OTHER -> handleCondition(this, operator, operands, ctx)

\* bound of the parameter indices paramsToArray can recognise in a key
MaxParamIndex == 12

\* getParamIndex: the number matched by /[@$]?p?(\d+)/ in the key, 0 when
\* the key has no digits ('?')
getParamIndex(key) ==
  IF \E i \in 1..MaxParamIndex : key \in {"p" \o ToString(i), "$" \o ToString(i), "@p" \o ToString(i)}
  THEN CHOOSE i \in 1..MaxParamIndex :
         key \in {"p" \o ToString(i), "$" \o ToString(i), "@p" \o ToString(i)}
  ELSE 0

RECURSIVE insertByIndex(_, _)
\* stable insertion: after every entry whose index is not larger
insertByIndex(sorted, e) ==
  IF sorted = <<>> THEN <<e>>
  ELSE IF getParamIndex(Head(sorted).k) <= getParamIndex(e.k)
  THEN <<Head(sorted)>> \o insertByIndex(Tail(sorted), e)
  ELSE <<e>> \o sorted

RECURSIVE sortByIndex(_)
sortByIndex(entries) ==
  IF entries = <<>> THEN <<>>
  ELSE insertByIndex(sortByIndex(SubSeq(entries, 1, Len(entries) - 1)), entries[Len(entries)])

\* utils/pagination.ts: Object.keys(params).sort(by index).map(k => params[k])
paramsToArray(params) ==
  LET sorted == sortByIndex(params)
  IN [i \in 1..Len(sorted) |-> sorted[i].v]

\* a compile that goes on numbering from where the previous call on the
\* instance stopped, as a context kept in the instance would make it
compile_sharedContext(this, input) ==
  LET sanitized == sanitizeInput(input)
      r == visit(this, sanitized, [NewContext EXCEPT !.paramIndex = result.ctx.paramIndex])
  IN [ok |-> r.ok, err |-> r.err, sql |-> r.sql, params |-> r.params,
      paramsArray |-> paramsToArray(r.params), ctx |-> r.ctx]

\* compile(rule): the outcome record keeps the final context for inspection
compile(this, input) ==
  LET sanitized == sanitizeInput(input)
      r == visit(this, sanitized, NewContext)
  IN [ok |-> r.ok, err |-> r.err, sql |-> r.sql, params |-> r.params,
      paramsArray |-> paramsToArray(r.params), ctx |-> r.ctx]

-----------------------------------------------------------------------------
(* Inputs: bounded sets of configurations and rules                        *)

\* largest max_depth / max_conditions a configuration sets explicitly
MaxDepthCfg == 2

MaxCondCfg == 3

\* configurations: MySQL and SQLite ignore the placeholder style, so it is
\* varied for the two dialects that honour it; caps are varied on the
\* default dialect
Configs ==
  {[dialect |-> n, placeholderStyle |-> s, maxDepth |-> Undefined, maxConditions |-> Undefined] :
     n \in {"postgresql", "mssql"}, s \in {"", "dollar", "question", "at"}}
  \cup {[dialect |-> n, placeholderStyle |-> "", maxDepth |-> Undefined, maxConditions |-> Undefined] :
     n \in {"mysql", "sqlite"}}
  \cup {[dialect |-> "", placeholderStyle |-> "", maxDepth |-> md, maxConditions |-> mc] :
     md \in 0..MaxDepthCfg, mc \in 0..MaxCondCfg}

Var(f) == JObj(<<"var">>, <<JStr(f)>>)

Cond(tok, f, vals) == JObj(<<tok>>, <<JList(<<Var(f)>> \o vals)>>)

And(kids) == JObj(<<"and">>, <<JList(kids)>>)

Or(kids) == JObj(<<"or">>, <<JList(kids)>>)

Not(kid) == JObj(<<"not">>, <<kid>>)

Bang(kid) == JObj(<<"!">>, <<kid>>)

CondTokens ==
  {"==", "!=", ">", "in", "not_in", "between", "contains", "starts_with", "ilike",
   "regex", "is_null", "any_of", "overlaps", "json_contains", "bogus",
   "!in", "ends_with", "any_ilike"}

FieldNames ==
  {f_status, f_name, f_age, f_tags, f_meta, f_secret, f_weird, f_total, f_price,
   f_lname, f_jcity, f_cname, f_ghost}

\* the operands that follow the field reference
ValueTuples ==
  {<<>>, <<JNull>>,
   <<JStr(<<"A">>)>>, <<JStr(<<"B">>)>>, <<JStr(s_on)>>, <<JStr(<<"A", NUL>>)>>,
   <<JStr(<<" ", "A", "%", "B">>)>>,
   <<JNum(2)>>, <<JNum(7)>>,
   <<JList(<<>>)>>, <<JList(<<JStr(<<"A">>), JStr(<<"B">>)>>)>>,
   <<JList(<<JStr(<<"A", NUL>>)>>)>>, <<JList(<<JStr(s_on), JStr(<<"A", "A", "A">>)>>)>>,
   <<JList(<<JNum(2), JNum(7)>>)>>,
   <<JNum(2), JNum(3)>>, <<JNum(2), JNum(7)>>, <<JNum(2), JNull>>,
   <<JStr(<<"A">>), JStr(<<"B">>)>>, <<JStr(<<"A">>), JStr(<<NUL>>)>>}

Leaves == {Cond(tok, f, vals) : tok \in CondTokens, f \in FieldNames, vals \in ValueTuples}

\* leaves placed under connectives: they register 1, 1, 2, 2, 0 and 2
\* parameters, and the last one names an unknown field
NestLeaves ==
  {Cond("==", f_age, <<JNum(2)>>),
   Cond("contains", f_name, <<JStr(<<"A">>)>>),
   Cond("in", f_status, <<JList(<<JStr(s_on), JStr(s_off)>>)>>),
   Cond("between", f_age, <<JNum(2), JNum(3)>>),
   Cond("is_null", f_name, <<>>),
   Cond("any_of", f_meta, <<JList(<<JStr(<<"A">>), JStr(<<"B">>)>>)>>),
   Cond("==", f_ghost, <<JNum(2)>>)}

Trees1 ==
  {And(<<a, b>>) : a, b \in NestLeaves} \cup {Or(<<a, b>>) : a, b \in NestLeaves}
  \cup {Not(a) : a \in NestLeaves} \cup {And(<<>>), Or(<<>>)}
  \cup {Bang(Cond("==", f_age, <<JNum(2)>>))}

\* the leaves and subtrees that deeper rules are assembled from
GoodLeaf == Cond("==", f_age, <<JNum(2)>>)

BadLeaf == Cond("==", f_ghost, <<JNum(2)>>)

Trees1Small ==
  {And(<<a, b>>) : a, b \in {GoodLeaf, BadLeaf}} \cup {Not(GoodLeaf), Or(<<GoodLeaf>>), And(<<>>)}
  \cup {Or(<<Cond("in", f_status, <<JList(<<JStr(s_on), JStr(s_off)>>)>>),
             Cond("contains", f_name, <<JStr(<<"A">>)>>)>>)}

Trees2 ==
  {Not(t) : t \in Trees1Small}
  \cup {And(<<t, a>>) : t \in Trees1Small, a \in {GoodLeaf, BadLeaf}}
  \cup {Or(<<a, t>>) : t \in Trees1Small, a \in {GoodLeaf, BadLeaf}}
  \cup {And(<<t, u>>) : t, u \in {And(<<GoodLeaf, GoodLeaf>>), Or(<<GoodLeaf>>)}}

Trees3 ==
  {Not(t) : t \in Trees2} \cup {And(<<GoodLeaf, t>>) : t \in Trees2}

\* rules that are not well formed
Malformed ==
  {JNull, JNum(2), JStr(<<"A">>), JList(<<>>), JObj(<<>>, <<>>),
   JObj(<<"and">>, <<JNum(2)>>), JObj(<<"or">>, <<GoodLeaf>>), Not(JNum(2)),
   JObj(<<"==">>, <<JNum(2)>>), JObj(<<"==">>, <<JList(<<>>)>>),
   JObj(<<"==">>, <<JList(<<JStr(f_age), JNum(2)>>)>>),
   JObj(<<"==">>, <<JList(<<JObj(<<"var">>, <<JNum(2)>>), JNum(2)>>)>>),
   JObj(<<"__proto__", "==">>, <<JNull, JList(<<Var(f_age), JNum(2)>>)>>),
   JObj(<<"==", "and">>, <<JList(<<Var(f_age), JNum(2)>>), JList(<<BadLeaf>>)>>)}

\* object values carrying keys named like the members of Object.prototype
PlainObj == JObj(<<"constructor">>, <<JStr(<<"A">>)>>)
ProtoObj == JObj(<<"__proto__">>, <<JObj(<<"B">>, <<JNum(2)>>)>>)
MixedObj ==
  JObj(<<"constructor", "__proto__", "prototype">>,
       <<JStr(<<"A">>), JStr(<<"B">>), JList(<<ProtoObj, JNum(2), PlainObj>>)>>)

\* rules with such keys in a value, in an operand list and in the rule itself
KeyedRules ==
  {Cond(tok, f_meta, <<v>>) :
     tok \in {"==", "json_contains", "contains"}, v \in {PlainObj, ProtoObj, MixedObj}}
  \cup {Cond("in", f_meta, <<JList(<<PlainObj, MixedObj>>)>>),
        JObj(<<"__proto__", "and">>, <<PlainObj, JList(<<GoodLeaf, GoodLeaf>>)>>),
        JObj(<<"and", "__proto__">>,
             <<JList(<<GoodLeaf, JObj(<<"__proto__", "==">>,
                                      <<JNull, JList(<<Var(f_age), JNum(2)>>)>>)>>),
               JNull>>),
        JObj(<<"constructor">>, <<JList(<<Var(f_age), JNum(2)>>)>>),
        JObj(<<"__proto__">>, <<JList(<<Var(f_age), JNum(2)>>)>>)}

\* string values made of LIKE metacharacters of one dialect or another
MetaTexts == {<<"%">>, <<"_", "A">>, <<"\\">>, <<"[", "%">>, <<"A", "]">>, <<"\\", "_">>}

\* pattern conditions over them
PatternRules ==
  {Cond(tok, f, <<JStr(s)>>) :
     tok \in {"contains", "starts_with", "ends_with"}, f \in {f_name, f_lname}, s \in MetaTexts}
  \cup {Cond(tok, f_tags, <<JStr(s)>>) : tok \in {"any_ilike", "not_any_ilike"}, s \in MetaTexts}

\* conditions with the operators only some dialects implement
DialectRules ==
  {Cond(tok, f, <<v>>) :
     tok \in {"contained_by", "json_has_key", "json_has_any_keys"},
     f \in {f_tags, f_meta},
     v \in {JStr(<<"A">>), JList(<<JStr(<<"A">>)>>), JList(<<>>)}}

Rules ==
  Leaves \cup Trees1 \cup Trees2 \cup Trees3 \cup Malformed \cup KeyedRules \cup PatternRules
  \cup DialectRules

-----------------------------------------------------------------------------
(* State machine                                                           *)

NoResult ==
  [ok |-> FALSE, err |-> "", sql |-> <<>>, params |-> <<>>, paramsArray |-> <<>>,
   ctx |-> NewContext]

\* a compiler instance has been constructed; no rule compiled yet
Init ==
  /\ compiler \in {JsonLogicCompiler(cfg) : cfg \in Configs}
  /\ rule = JNull
  /\ result = NoResult
  /\ pc = "ready"

\* compile(rule) on the instance: the outcome is the returned SqlResult or
\* the error thrown
Compile ==
  /\ pc = "ready"
  /\ \E r \in Rules :
       /\ rule' = r
       /\ result' = compile(compiler, r)
  /\ pc' = "done"
  /\ UNCHANGED compiler

Next == Compile

Spec == Init /\ [][Next]_vars

Done == pc = "done"

Succeeded == pc = "done" /\ result.ok

-----------------------------------------------------------------------------
(* Reading a rule and an outcome, independently of the compiler            *)

Connectives == {"and", "or", "!", "not"}

\* the key a rule node is read by: its first key that is not stripped
RuleKey(node) ==
  IF node.t = "obj" /\ \E i \in 1..Len(node.ks) : node.ks[i] \notin DANGEROUS_KEYS
  THEN node.ks[CHOOSE i \in 1..Len(node.ks) :
                 /\ node.ks[i] \notin DANGEROUS_KEYS
                 /\ \A j \in 1..(i - 1) : node.ks[j] \in DANGEROUS_KEYS]
  ELSE ""

RuleArg(node) ==
  node.xs[CHOOSE i \in 1..Len(node.ks) : node.ks[i] = RuleKey(node)]

\* the nodes directly inside a connective node
Children(node) ==
  CASE RuleKey(node) \in {"and", "or"} /\ RuleArg(node).t = "list" -> RuleArg(node).xs
    [] RuleKey(node) \in {"!", "not"} -> <<RuleArg(node)>>
    [] OTHER -> <<>>

RECURSIVE Conditions(_)
\* the leaf conditions of a rule, left to right
Conditions(node) ==
  IF RuleKey(node) = "" THEN <<>>
  ELSE IF RuleKey(node) \in Connectives
  THEN LET kids == Children(node)
           RECURSIVE cat(_)
           cat(i) == IF i > Len(kids) THEN <<>> ELSE Conditions(kids[i]) \o cat(i + 1)
       IN cat(1)
  ELSE <<node>>

RECURSIVE MaxNodeDepth(_)
\* the largest number of connectives any node of the rule lies inside
MaxNodeDepth(node) ==
  LET kids == Children(node)
      RECURSIVE most(_)
      most(i) == IF i > Len(kids) THEN 0
                 ELSE LET a == 1 + MaxNodeDepth(kids[i])
                          b == most(i + 1)
                      IN IF a > b THEN a ELSE b
  IN most(1)

\* a well-formed condition: operator token, field reference, operands
WellFormed(c) ==
  /\ RuleArg(c).t = "list" /\ Len(RuleArg(c).xs) >= 1
  /\ RuleArg(c).xs[1].t = "obj" /\ RuleArg(c).xs[1].ks = <<"var">>
  /\ RuleArg(c).xs[1].xs[1].t = "str"

CondField(c) == RuleArg(c).xs[1].xs[1].c

CondOperator(c) ==
  IF RuleKey(c) \in DOMAIN JSON_LOGIC_TO_OPERATOR THEN JSON_LOGIC_TO_OPERATOR[RuleKey(c)]
  ELSE RuleKey(c)

\* the operands after the field reference
CondValues(c) == Tail(RuleArg(c).xs)

\* placeholder texts of the three styles, and their occurrences in a text
PlaceholderIndex(a) ==
  IF \E i \in 1..MaxParamIndex : a \in {"$" \o ToString(i), "@p" \o ToString(i)}
  THEN CHOOSE i \in 1..MaxParamIndex : a \in {"$" \o ToString(i), "@p" \o ToString(i)}
  ELSE 0

IsPlaceholder(a) == a = "?" \/ PlaceholderIndex(a) > 0

Placeholders(sql) == SelectSeq(sql, IsPlaceholder)

\* the index the k-th placeholder occurrence refers to: its own number,
\* or its position for the positional '?'
BoundIndex(phs, k) == IF phs[k] = "?" THEN k ELSE PlaceholderIndex(phs[k])

PKey(i) == "p" \o ToString(i)

Keys(params) == {params[i].k : i \in 1..Len(params)}

-----------------------------------------------------------------------------
(* C1 - C10                                                                *)

\* C1: after a successful compile that registered n parameters, the keys
\* of params are exactly p1..pn, every placeholder occurrence in sql is
\* bound by exactly one entry of params, and paramsArray[i-1] is
\* params["p"+i] for 1 <= i <= n.
C1_ParamsContiguous ==
  Succeeded =>
    LET n == Len(result.params)
        phs == Placeholders(result.sql)
    IN /\ Keys(result.params) = {PKey(i) : i \in 1..n}
       /\ \A k \in 1..Len(phs) :
            Cardinality({i \in 1..n : result.params[i].k = PKey(BoundIndex(phs, k))}) = 1
       /\ Len(result.paramsArray) = n
       /\ \A i \in 1..n : \E j \in 1..n :
            result.params[j].k = PKey(i) /\ result.paramsArray[i] = result.params[j].v

\* value substitutions: each replaces every non-null scalar operand value
Substitutions == 1..4

RECURSIVE SubstValue(_, _)
SubstValue(m, v) ==
  CASE v.t = "list" -> JList([i \in 1..Len(v.xs) |-> SubstValue(m, v.xs[i])])
    [] v.t = "str" ->
         CASE m = 1 -> JStr(<<"B">>) [] m = 2 -> JStr(s_on)
           [] m = 3 -> JStr(<<"%", "A">>) [] OTHER -> JNum(2)
    [] v.t = "num" ->
         CASE m = 1 -> JNum(3) [] m = 2 -> JNum(2)
           [] m = 3 -> JNum(7) [] OTHER -> JStr(<<"A">>)
    [] OTHER -> v

RECURSIVE SubstRule(_, _)
\* the rule with the same shape whose operand values are substituted
SubstRule(m, node) ==
  LET arg == RuleArg(node)
      newArg ==
        CASE RuleKey(node) \in {"and", "or"} /\ arg.t = "list" ->
               JList([i \in 1..Len(arg.xs) |-> SubstRule(m, arg.xs[i])])
          [] RuleKey(node) \in {"!", "not"} -> SubstRule(m, arg)
          [] RuleKey(node) \notin Connectives /\ WellFormed(node) ->
               JList(<<arg.xs[1]>> \o [i \in 1..(Len(arg.xs) - 1) |-> SubstValue(m, arg.xs[i + 1])])
          [] OTHER -> arg
  IN IF RuleKey(node) = "" THEN node
     ELSE JObj(node.ks, [i \in 1..Len(node.ks) |->
                           IF node.ks[i] = RuleKey(node) THEN newArg ELSE node.xs[i]])

RECURSIVE ScalarTexts(_)
\* the texts of the non-null scalars of a value
ScalarTexts(v) ==
  CASE v.t = "list" -> UNION {ScalarTexts(v.xs[i]) : i \in 1..Len(v.xs)}
    [] v.t = "str" -> {v.c} \ {<<>>}
    [] v.t = "num" -> {<<ToString(v.n)>>}
    [] OTHER -> {}

\* the texts of all values supplied in the conditions of a rule
SuppliedTexts(r) ==
  LET cs == Conditions(r)
  IN UNION {IF WellFormed(cs[i])
            THEN UNION {ScalarTexts(CondValues(cs[i])[j]) : j \in 1..Len(CondValues(cs[i]))}
            ELSE {} : i \in 1..Len(cs)}

Occurs(text, sql) ==
  \E i \in 1..(Len(sql) - Len(text) + 1) : SubSeq(sql, i, i + Len(text) - 1) = text

\* C2: the sql text does not depend on operand values: a rule that differs
\* only in its non-null scalar values (or list elements, same length) and
\* also compiles gives the identical sql, and no supplied value occurs in
\* the sql text.
C2_SqlIndependentOfValues ==
  Succeeded =>
    /\ \A m \in Substitutions :
         LET other == compile(compiler, SubstRule(m, rule))
         IN other.ok => other.sql = result.sql
    /\ \A text \in SuppliedTexts(rule) : ~Occurs(text, result.sql)

\* two conditions under a connective compile for the rule and for a
\* variant of it with other values, and the parameter values differ
C2_Witness ==
  /\ Succeeded
  /\ Len(Conditions(rule)) >= 2
  /\ Len(result.params) >= 2
  /\ \E m \in Substitutions :
       LET other == compile(compiler, SubstRule(m, rule))
       IN other.ok /\ other.paramsArray # result.paramsArray

Letter ==
  {"a", "b", "c", "d", "e", "f", "g", "h", "i", "j", "k", "l", "m", "n", "o", "p", "q",
   "r", "s", "t", "u", "v", "w", "x", "y", "z", "A", "B", "C", "D", "E", "F", "G", "H",
   "I", "J", "K", "L", "M", "N", "O", "P", "Q", "R", "S", "T", "U", "V", "W", "X", "Y", "Z"}

Digit == {"0", "1", "2", "3", "4", "5", "6", "7", "8", "9"}

\* [A-Za-z_][A-Za-z0-9_]*
LexemeOK(part) ==
  /\ part # <<>>
  /\ part[1] \in Letter \cup {"_"}
  /\ \A i \in 1..Len(part) : part[i] \in Letter \cup Digit \cup {"_"}

\* a field whose column reference is built from quoted identifier parts
RegularField(f) ==
  f \in DOMAIN Schema /\ ~Schema[f].computed /\ Schema[f].jsonPath = ""

ColumnParts(f) == Split(IF Schema[f].column # <<>> THEN Schema[f].column ELSE f, ".")

RECURSIVE Doubled(_)
Doubled(part) ==
  IF part = <<>> THEN <<>>
  ELSE (IF Head(part) = "\"" THEN <<"\"", "\"">> ELSE <<Head(part)>>) \o Doubled(Tail(part))

\* a part between the identifier quotes of the dialect
ExpectedQuoted(dialect, part) ==
  CASE dialect = "mysql" -> <<BT>> \o part \o <<BT>>
    [] dialect = "mssql" -> <<"[">> \o part \o <<"]">>
    [] OTHER -> <<"\"">> \o Doubled(part) \o <<"\"">>

RECURSIVE ExpectedColumn(_, _)
ExpectedColumn(dialect, parts) ==
  IF Len(parts) = 1 THEN ExpectedQuoted(dialect, parts[1])
  ELSE ExpectedQuoted(dialect, parts[1]) \o <<".">> \o ExpectedColumn(dialect, Tail(parts))

RegularConditions(r) ==
  {c \in SeqToSet(Conditions(r)) : WellFormed(c) /\ RegularField(CondField(c))}

\* C3 (as stated): in a successful compile every part of every quoted
\* column identifier matches [A-Za-z_][A-Za-z0-9_]*, a condition on a field
\* with a part that does not match makes compile fail.
C3_IdentifiersMatchLexeme ==
  Succeeded =>
    \A c \in RegularConditions(rule) :
      \A i \in 1..Len(ColumnParts(CondField(c))) : LexemeOK(ColumnParts(CondField(c))[i])

\* an in / not_in over the empty list is emitted as 1=0 / 1=1, without
\* its column
EmptyList(c) ==
  /\ CondOperator(c) \in {"in", "not_in"}
  /\ Len(CondValues(c)) >= 1 /\ CondValues(c)[1] = JList(<<>>)

\* C3 (amended): in a successful compile every dot-separated part of a
\* column name that is emitted stands between the identifier quotes of the
\* dialect, whatever its characters; PostgreSQL and SQLite double an
\* embedded double quote, MySQL and SQL Server emit the part verbatim.
C3_IdentifiersQuoted ==
  Succeeded =>
    \A c \in RegularConditions(rule) :
      \/ EmptyList(c)
      \/ Occurs(ExpectedColumn(compiler.dialect.name, ColumnParts(CondField(c))), result.sql)

\* a compile succeeds on a condition whose column has a part outside the
\* lexeme
C3_Witness ==
  /\ Succeeded
  /\ \E c \in RegularConditions(rule) :
       \E i \in 1..Len(ColumnParts(CondField(c))) : ~LexemeOK(ColumnParts(CondField(c))[i])

\* the condition names an existing, filterable field and its canonical
\* operator is declared for the field
Permitted(c) ==
  /\ WellFormed(c)
  /\ CondField(c) \in DOMAIN Schema
  /\ Schema[CondField(c)].filterable
  /\ CondOperator(c) \in Schema[CondField(c)].operators

\* C4: a rule with a condition whose field is unknown or not filterable, or
\* whose canonical operator is not declared for the field, fails and
\* returns no SQL; so after a success every condition is permitted.
C4_FieldsAndOperatorsPermitted ==
  (Done /\ \E i \in 1..Len(Conditions(rule)) : ~Permitted(Conditions(rule)[i]))
    => (~result.ok /\ result.sql = <<>>)

\* a rule of several permitted conditions compiles
C4_Witness ==
  /\ Succeeded
  /\ Len(Conditions(rule)) >= 2
  /\ \A i \in 1..Len(Conditions(rule)) : Permitted(Conditions(rule)[i])
  /\ \E i, j \in 1..Len(Conditions(rule)) :
       CondOperator(Conditions(rule)[i]) # CondOperator(Conditions(rule)[j])

SatType(field, v) ==
  CASE field.type \in {"string", "text"} -> v.t = "str"
    [] field.type \in {"number", "integer", "decimal"} -> v.t = "num"
    [] field.type = "boolean" -> v.t = "bool"
    [] field.type = "array" -> v.t = "list"
    [] OTHER -> TRUE

SatOptions(field, v) ==
  \/ ~field.options.defined
  \/ ~field.options.strict
  \/ IF v.t = "list" THEN \A i \in 1..Len(v.xs) : v.xs[i] \in field.options.items
     ELSE v \in field.options.items

Within(x, lo, hi) == (lo = Undefined \/ x >= lo) /\ (hi = Undefined \/ x <= hi)

SatConstraints(field, v) ==
  \/ ~field.constraints.defined
  \/ CASE v.t = "str" -> Within(Len(v.c), field.constraints.minLength, field.constraints.maxLength)
       [] v.t = "num" -> Within(v.n, field.constraints.min, field.constraints.max)
       [] v.t = "list" -> Within(Len(v.xs), field.constraints.minItems, field.constraints.maxItems)
       [] OTHER -> TRUE

SatAll(field, v) == SatType(field, v) /\ SatOptions(field, v) /\ SatConstraints(field, v)

\* the conditions whose operands are validated
NonUnaryConditions(r) ==
  {c \in SeqToSet(Conditions(r)) : Permitted(c) /\ CondOperator(c) \notin UNARY_OPERATORS}

\* the values a condition supplies: the elements of the list of in /
\* not_in, the bounds of between / not_between, the operand otherwise
ValueOperands(c) ==
  LET vs == CondValues(c)
  IN CASE CondOperator(c) \in {"in", "not_in"} /\ Len(vs) >= 1 /\ vs[1].t = "list" ->
            SeqToSet(vs[1].xs)
       [] CondOperator(c) \in RANGE_OPERATORS -> {vs[i] : i \in 1..Len(vs) \cap 1..2}
       [] OTHER -> {vs[i] : i \in 1..Len(vs) \cap 1..1}

\* C5 (as stated): after a successful compile every (non-null) value
\* operand of every non-unary condition satisfies the field's type check,
\* options list and constraints, each element of an in / not_in list and
\* each bound of a between individually.
C5_ValuesFullyValidated ==
  Succeeded =>
    \A c \in NonUnaryConditions(rule) :
      \A v \in ValueOperands(c) : isNullV(v) \/ SatAll(Schema[CondField(c)], v)

\* a bound of between given as a list is checked element by element
BoundOK(field, b) ==
  IF b.t = "list"
  THEN Len(b.xs) = 2 /\ \A i \in 1..2 : IF isNullV(b.xs[i]) THEN field.nullable
                                        ELSE SatAll(field, b.xs[i])
  ELSE SatAll(field, b)

\* C5 (amended): after a successful compile every non-null value operand
\* of every non-unary condition satisfies the field's options list; it
\* satisfies the type check unless the operator is any_of / not_any_of on
\* an array field; it satisfies the constraints unless the operator is
\* in / not_in, whose list elements are checked one by one for type and
\* options only; the two bounds of between / not_between are each checked
\* for type, options and constraints; a null operand passes only on a
\* nullable field.
C5_ValuesValidated ==
  Succeeded =>
    \A c \in NonUnaryConditions(rule) :
      LET field == Schema[CondField(c)]
          op == CondOperator(c)
      IN \A v \in ValueOperands(c) :
           CASE isNullV(v) -> field.nullable
             [] op \in {"in", "not_in"} -> SatType(field, v) /\ SatOptions(field, v)
             [] op \in RANGE_OPERATORS -> BoundOK(field, v)
             [] op \in {"any_of", "not_any_of"} /\ field.type = "array" ->
                  SatOptions(field, v) /\ SatConstraints(field, v)
             [] OTHER -> SatAll(field, v)

\* a compile succeeds on an in-list with an element outside the field's
\* constraints
C5_Witness ==
  /\ Succeeded
  /\ \E c \in NonUnaryConditions(rule) :
       /\ CondOperator(c) \in {"in", "not_in"}
       /\ \E v \in ValueOperands(c) :
            ~isNullV(v) /\ ~SatConstraints(Schema[CondField(c)], v)

\* C6: the placeholders of the assembled sql appear left to right in
\* registration order: the k-th occurrence carries the k-th registered
\* index and its value is the k-th element of paramsArray.
C6_PlaceholderOrder ==
  Succeeded =>
    LET phs == Placeholders(result.sql)
    IN \A k \in 1..Len(phs) :
         /\ BoundIndex(phs, k) = k
         /\ k <= Len(result.params) /\ k <= Len(result.paramsArray)
         /\ result.paramsArray[k] = result.params[k].v

\* C7: every parameter is stored under the key p{i}, never under the
\* placeholder text.
C7_UnifiedParamKeys ==
  Succeeded =>
    \A i \in 1..Len(result.params) :
      /\ result.params[i].k \in {PKey(j) : j \in 1..MaxParamIndex}
      /\ ~IsPlaceholder(result.params[i].k)

DepthError == "Maximum nesting depth exceeded"

C9_ConditionCap ==
  (Done /\ Len(Conditions(rule)) > compiler.maxConditions)
    => (~result.ok /\ result.sql = <<>>)

RECURSIVE ContainsNul(_)
ContainsNul(v) ==
  CASE v.t = "str" -> NUL \in SeqToSet(v.c)
    [] v.t \in {"list", "jsonstr"} -> \E i \in 1..Len(v.xs) : ContainsNul(v.xs[i])
    [] OTHER -> FALSE

\* C10: after a successful compile no string among the parameter values
\* contains a NUL character, be it a single operand, a between bound or a
\* list element.
C10_NoNulInParams ==
  Succeeded =>
    /\ \A i \in 1..Len(result.params) : ~ContainsNul(result.params[i].v)
    /\ \A i \in 1..Len(result.paramsArray) : ~ContainsNul(result.paramsArray[i])

-----------------------------------------------------------------------------
(* Reuse of one compiler instance                                          *)

\* first calls after which the instance is used again: successes that
\* register parameters, a success that registers none, failures
PriorRules ==
  NestLeaves \cup {And(<<GoodLeaf, BadLeaf>>), Not(GoodLeaf), JNull,
                   Cond("any_of", f_tags, <<JStr(<<"A">>)>>)}

\* rules of the later call
ReuseRules == NestLeaves \cup Trees1 \cup {JNull, JObj(<<"and">>, <<JNum(2)>>)}

\* compile(rule) called again on the instance that has completed a call
CompileAgain ==
  /\ pc = "done"
  /\ rule \in PriorRules
  /\ \E r \in ReuseRules :
       /\ rule' = r
       /\ result' = compile(compiler, r)
  /\ pc' = "again"
  /\ UNCHANGED compiler

NextReuse == Compile \/ CompileAgain

SpecReuse == Init /\ [][NextReuse]_vars

\* what the rule compiles to when it is the first rule an instance of the
\* same configuration is given
FirstCallOutcome(this, r) ==
  LET v == visit(this, sanitizeInput(r), NewContext)
  IN [ok |-> v.ok, err |-> v.err, sql |-> v.sql, params |-> v.params,
      paramsArray |-> paramsToArray(v.params), ctx |-> v.ctx]

-----------------------------------------------------------------------------
(* Sanitization                                                            *)

\* positions of the entries of an object that are not named __proto__
KeptAt(o) == {i \in 1..Len(o.ks) : o.ks[i] # "__proto__"}

\* where the kept entry at position i of the input lands in the copy
RankOf(o, i) == Cardinality({j \in KeptAt(o) : j <= i})

RECURSIVE SanitizedCopy(_, _)
\* out is in with every __proto__ entry dropped at every level and
\* everything else in place
SanitizedCopy(in, out) ==
  CASE in.t = "list" ->
         /\ out.t = "list"
         /\ Len(out.xs) = Len(in.xs)
         /\ \A i \in 1..Len(in.xs) : SanitizedCopy(in.xs[i], out.xs[i])
    [] in.t = "obj" ->
         /\ out.t = "obj"
         /\ Len(out.ks) = Cardinality(KeptAt(in))
         /\ Len(out.xs) = Len(out.ks)
         /\ \A i \in KeptAt(in) :
              /\ out.ks[RankOf(in, i)] = in.ks[i]
              /\ SanitizedCopy(in.xs[i], out.xs[RankOf(in, i)])
    [] OTHER -> out = in

RECURSIVE HasKeyAnywhere(_, _)
HasKeyAnywhere(v, k) ==
  CASE v.t = "list" -> \E i \in 1..Len(v.xs) : HasKeyAnywhere(v.xs[i], k)
    [] v.t = "obj" ->
         \E i \in 1..Len(v.ks) : v.ks[i] = k \/ HasKeyAnywhere(v.xs[i], k)
    [] OTHER -> FALSE

\* the object a rule compares a jsonb field with, where it has that shape
ObjectOperand(r) ==
  /\ r.t = "obj" /\ r.ks = <<"==">>
  /\ r.xs[1].t = "list" /\ Len(r.xs[1].xs) = 2
  /\ r.xs[1].xs[2].t = "obj"

-----------------------------------------------------------------------------
(* Inputs that are object graphs: sharing and cycles                       *)

\* objects and arrays of an input graph besides the shared condition
MaxHeapNodes == 2

\* reference to the one condition object every graph may point at
SharedLeaf == 0

HeapIds == 1..MaxHeapNodes

HeapRefs == HeapIds \cup {SharedLeaf}

\* an array of two elements, a connective object, or an object that has an
\* own enumerable __proto__ entry in front of a negated condition
HeapNodes ==
  {[t |-> "list", ks |-> <<>>, kids |-> <<a, b>>] : a, b \in HeapRefs}
  \cup {[t |-> "obj", ks |-> <<k>>, kids |-> <<a>>] : k \in {"and", "!"}, a \in HeapRefs}
  \cup {[t |-> "obj", ks |-> <<"__proto__", "!">>, kids |-> <<a, SharedLeaf>>] : a \in HeapRefs}

\* the caller's input: node 1 is the rule handed to compile
Heaps == {[root |-> 1, nodes |-> ns] : ns \in [HeapIds -> HeapNodes]}

CircularError == "Circular reference detected"

\* visited.delete(input) that is skipped, so an object stays marked after
\* its traversal has ended
leave_keep(visited, id) == visited

\* visited.delete(input)
leave(visited, id) == visited \ {id}

RECURSIVE sanitizeHeap(_, _, _)
RECURSIVE sanitizeEntries(_, _, _, _, _, _)
\* the loop over the elements of an array or the keys of an object, from
\* entry i on, with the keys and values copied so far
sanitizeEntries(h, node, i, visited, ks, xs) ==
  IF i > Len(node.kids) THEN [err |-> "", ks |-> ks, xs |-> xs, visited |-> visited]
  ELSE IF node.t = "obj" /\ node.ks[i] \in DANGEROUS_KEYS
       THEN sanitizeEntries(h, node, i + 1, visited, ks, xs)
       ELSE LET r == sanitizeHeap(h, node.kids[i], visited)
            IN IF r.err # "" THEN [err |-> r.err, ks |-> ks, xs |-> xs, visited |-> r.visited]
               ELSE sanitizeEntries(h, node, i + 1, r.visited,
                                    IF node.t = "obj" THEN Append(ks, node.ks[i]) ELSE ks,
                                    Append(xs, r.value))

\* sanitizeInput(input, visited) on the object a reference points at; the
\* visited set is the one WeakSet all recursive calls share
sanitizeHeap(h, ref, visited) ==
  IF ref \in visited
  THEN [err |-> CircularError, value |-> JNull, visited |-> visited]
  ELSE IF ref = SharedLeaf
       THEN [err |-> "", value |-> sanitizeInput(GoodLeaf),
             visited |-> leave(visited \cup {ref}, ref)]
       ELSE LET node == h.nodes[ref]
                r == sanitizeEntries(h, node, 1, visited \cup {ref}, <<>>, <<>>)
            IN IF r.err # "" THEN [err |-> r.err, value |-> JNull, visited |-> r.visited]
               ELSE [err |-> "",
                     value |-> IF node.t = "list" THEN JList(r.xs) ELSE JObj(r.ks, r.xs),
                     visited |-> leave(r.visited, ref)]

\* compile(rule) for a rule given as an object graph
compileHeap(this, h) ==
  LET s == sanitizeHeap(h, h.root, {})
      r == IF s.err # "" THEN Fail(s.err, NewContext) ELSE visit(this, s.value, NewContext)
  IN [ok |-> r.ok, err |-> r.err, sql |-> r.sql, params |-> r.params,
      paramsArray |-> paramsToArray(r.params), ctx |-> r.ctx]

CompileHeap ==
  /\ pc = "ready"
  /\ \E h \in Heaps :
       /\ rule' = h
       /\ result' = compileHeap(compiler, h)
  /\ pc' = "done"
  /\ UNCHANGED compiler

NextHeap == CompileHeap

SpecHeap == Init /\ [][NextHeap]_vars

\* references an object or array holds, and those it holds in entries that
\* are not named __proto__
AllEdges(h) ==
  {<<a, b>> \in HeapIds \X HeapRefs :
     \E i \in 1..Len(h.nodes[a].kids) : h.nodes[a].kids[i] = b}

KeptEdges(h) ==
  {<<a, b>> \in HeapIds \X HeapRefs :
     \E i \in 1..Len(h.nodes[a].kids) :
        /\ h.nodes[a].kids[i] = b
        /\ h.nodes[a].t = "obj" => h.nodes[a].ks[i] # "__proto__"}

RECURSIVE ReachFrom(_, _)
ReachFrom(E, S) ==
  LET n == S \cup {e[2] : e \in {d \in E : d[1] \in S}}
  IN IF n = S THEN S ELSE ReachFrom(E, n)

\* some object of the input is reachable from itself along E
Cyclic(E, h) ==
  \E n \in ReachFrom(E, {h.root}) :
     n \in ReachFrom(E, {e[2] : e \in {d \in E : d[1] = n}}) /\ \E d \in E : d[1] = n

\* C13: compile fails with the circular-reference error exactly when some
\* object or array of the input is reachable from itself; an acyclic input
\* with shared objects is accepted.
C13_CircularExactlyWhenCyclic ==
  pc = "done" => (result.err = CircularError <=> Cyclic(AllEdges(rule), rule))

\* C13 as it holds: the error arises exactly when some object or array of
\* the input is reachable from itself through entries that are kept, that
\* is not only through an entry named __proto__; an input without such a
\* cycle is accepted however its objects are shared.
C13_CircularExactlyWhenKeptCycle ==
  pc = "done" => (result.err = CircularError <=> Cyclic(KeptEdges(rule), rule))

\* the array of the rule holds the rule itself, and compile has failed
C13_Witness ==
  /\ pc = "done"
  /\ rule.nodes[1] = [t |-> "obj", ks |-> <<"and">>, kids |-> <<2>>]
  /\ rule.nodes[2].t = "list" /\ rule.nodes[2].kids[1] = 1
  /\ result.err = CircularError

-----------------------------------------------------------------------------
(* Empty lists, null comparisons and operator errors                       *)

\* the rule is one condition on a filterable field that permits its operator
PermittedCondition ==
  /\ Done
  /\ RuleKey(rule) # "" /\ RuleKey(rule) \notin Connectives
  /\ Permitted(rule)

\* C14: in every dialect, for every field that permits in / not_in and
\* whatever the field's type, in with an empty list compiles to 1=0 and
\* not_in with an empty list to 1=1, both without parameters.
C14_EmptyListConstant ==
  (PermittedCondition /\ EmptyList(rule) /\ Len(CondValues(rule)) = 1) =>
    /\ result.ok
    /\ result.sql = <<IF CondOperator(rule) = "in" THEN "1=0" ELSE "1=1">>
    /\ result.params = <<>>
    /\ result.paramsArray = <<>>

\* the rule compares a field with null by == or !=
NullComparison ==
  /\ PermittedCondition
  /\ RuleKey(rule) \in {"==", "!="}
  /\ CondValues(rule) = <<JNull>>

\* what a null comparison is rewritten to: the column reference of the
\* field followed by IS NULL or IS NOT NULL, nothing bound
NullCheckEmitted ==
  /\ result.ok
  /\ result.sql =
       buildColumnRef(compiler.dialect, CondField(rule), Schema[CondField(rule)]).column
       \o <<" ", IF CondOperator(rule) = "eq" THEN "IS NULL" ELSE "IS NOT NULL">>
  /\ result.params = <<>>
  /\ Placeholders(result.sql) = <<>>

\* C15: for every field that allows eq (ne), == null (!= null) compiles to
\* '<column> IS NULL' ('<column> IS NOT NULL') with an empty parameter map
\* and no placeholder.
C15_NullComparisonRewritten == NullComparison => NullCheckEmitted

\* C15 as it holds: the rewrite is reached for every nullable field that
\* allows eq (ne); on a field that is not nullable the null value is
\* refused by the validator before the rewrite.
C15_NullableComparisonRewritten ==
  /\ (NullComparison /\ Schema[CondField(rule)].nullable) => NullCheckEmitted
  /\ (NullComparison /\ ~Schema[CondField(rule)].nullable) =>
       (~result.ok /\ result.err = "Null value not allowed")

\* != null on the nullable field read through a JSON path has compiled
C15_Witness ==
  /\ NullComparison
  /\ CondField(rule) = f_price /\ CondOperator(rule) = "ne"
  /\ NullCheckEmitted

\* the rule is one condition on a known, filterable field
ConditionOnKnownField ==
  /\ Done
  /\ RuleKey(rule) # "" /\ RuleKey(rule) \notin Connectives
  /\ WellFormed(rule)
  /\ CondField(rule) \in DOMAIN Schema
  /\ Schema[CondField(rule)].filterable

\* C16: a token that is an internal operator name the field does not
\* declare fails with the operator-not-allowed schema error; the
\* unknown-operator error is raised only for tokens outside the internal
\* operator set.
C16_UndeclaredOperatorNotAllowed ==
  ConditionOnKnownField =>
    /\ (RuleKey(rule) \in Operator /\ CondOperator(rule) \notin Schema[CondField(rule)].operators)
         => (~result.ok /\ result.err = "Operator not allowed for field")
    /\ result.err = "Unknown operator" => RuleKey(rule) \notin Operator

-----------------------------------------------------------------------------
(* PostgreSQL array and jsonb operators                                    *)

\* the rule is token [f, L] for a list L on a PostgreSQL compiler
ListCondition(tok) ==
  /\ Done
  /\ compiler.dialect.name = "postgresql"
  /\ RuleKey(rule) = tok
  /\ WellFormed(rule)
  /\ Len(CondValues(rule)) = 1 /\ CondValues(rule)[1].t = "list"

\* the field allows in, not_in and overlaps and is of type array or jsonb
SetField(f) ==
  /\ f \in DOMAIN Schema
  /\ Schema[f].filterable
  /\ Schema[f].type \in {"array", "jsonb"}
  /\ {"in", "not_in", "overlaps"} \subseteq Schema[f].operators

\* what overlaps [f, L] compiles to on the same compiler
AsOverlaps == compile(compiler, Cond("overlaps", CondField(rule), CondValues(rule)))

\* C17: on PostgreSQL, for an array or jsonb field that allows in, not_in
\* and overlaps and every list L that overlaps accepts, in [f, L] compiles,
\* to the sql and params of overlaps [f, L], and not_in [f, L] to
\* NOT (<that sql>) with the same params.
C17_InIsOverlaps ==
  /\ (ListCondition("in") /\ SetField(CondField(rule)) /\ AsOverlaps.ok) =>
       (/\ result.ok
        /\ result.sql = AsOverlaps.sql
        /\ result.params = AsOverlaps.params)
  /\ (ListCondition("not_in") /\ SetField(CondField(rule)) /\ AsOverlaps.ok) =>
       (/\ result.ok
        /\ result.sql = <<"NOT (">> \o AsOverlaps.sql \o <<")">>
        /\ result.params = AsOverlaps.params)

\* the rule is token [f, value] with one value, on a PostgreSQL compiler
PgCondition(tok) ==
  /\ Done
  /\ compiler.dialect.name = "postgresql"
  /\ RuleKey(rule) = tok
  /\ Permitted(rule)
  /\ Len(CondValues(rule)) = 1

\* the placeholder and key of the first parameter of a call
FirstPlaceholder == getParamPlaceholder(compiler.dialect, 1)

\* C18: on PostgreSQL, any_ilike (not_any_ilike) on an array field with a
\* string pattern compiles to
\* [NOT] EXISTS (SELECT 1 FROM unnest(<column>) AS x WHERE x ILIKE <placeholder>)
\* with exactly one parameter, the pattern.
C18_AnyIlikeExists ==
  \A tok \in {"any_ilike", "not_any_ilike"} :
    (/\ PgCondition(tok)
     /\ Schema[CondField(rule)].type = "array"
     /\ CondValues(rule)[1].t = "str"
     /\ ~ContainsNul(CondValues(rule)[1])) =>
      /\ result.ok
      /\ result.sql =
           <<IF tok = "any_ilike" THEN "EXISTS (SELECT 1 FROM unnest("
                                  ELSE "NOT EXISTS (SELECT 1 FROM unnest(">>
           \o buildColumnRef(compiler.dialect, CondField(rule), Schema[CondField(rule)]).column
           \o <<") AS x WHERE x ILIKE ", FirstPlaceholder, ")">>
      /\ Len(result.params) = 1
      /\ result.params[1].v = CondValues(rule)[1]

\* C19: on PostgreSQL, any_of on a native array field with a list value
\* compiles to '<column> && <placeholder>' with the whole list as its
\* single parameter.
C19_AnyOfListOverlaps ==
  (/\ PgCondition("any_of")
   /\ Schema[CondField(rule)].type = "array"
   /\ CondValues(rule)[1].t = "list"
   /\ ~ContainsNul(CondValues(rule)[1])) =>
    /\ result.ok
    /\ result.sql =
         buildColumnRef(compiler.dialect, CondField(rule), Schema[CondField(rule)]).column
         \o <<" ", "&&", " ", FirstPlaceholder>>
    /\ Len(result.params) = 1
    /\ result.params[1].v = CondValues(rule)[1]

-----------------------------------------------------------------------------
(* LIKE patterns                                                           *)

PatternOperators == {"contains", "starts_with", "ends_with"}

\* the character a database takes as the LIKE escape when the statement
\* has no ESCAPE clause, as every statement emitted here: the backslash on
\* PostgreSQL and MySQL, none on SQLite and MSSQL
DefaultLikeEscape(dialect) ==
  IF dialect \in {"postgresql", "mysql"} THEN "\\" ELSE ""

Wild(c) == [wild |-> TRUE, c |-> c]

Lit(c) == [wild |-> FALSE, c |-> c]

RECURSIVE ReadLike(_, _)
\* how the database reads a LIKE pattern: each element is a wildcard or a
\* character to be matched literally; on MSSQL [x] is the one-character
\* set that matches x
ReadLike(dialect, p) ==
  IF p = <<>> THEN <<>>
  ELSE IF Head(p) = DefaultLikeEscape(dialect) /\ Len(p) >= 2
  THEN <<Lit(p[2])>> \o ReadLike(dialect, SubSeq(p, 3, Len(p)))
  ELSE IF dialect = "mssql" /\ Head(p) = "[" /\ Len(p) >= 3 /\ p[3] = "]"
  THEN <<Lit(p[2])>> \o ReadLike(dialect, SubSeq(p, 4, Len(p)))
  ELSE IF Head(p) \in {"%", "_"}
  THEN <<Wild(Head(p))>> \o ReadLike(dialect, Tail(p))
  ELSE <<Lit(Head(p))>> \o ReadLike(dialect, Tail(p))

\* the pattern that matches the text literally, open on the sides the
\* operator leaves open
LiteralPattern(operator, text) ==
  (IF operator \in {"contains", "ends_with"} THEN <<Wild("%")>> ELSE <<>>)
  \o [i \in 1..Len(text) |-> Lit(text[i])]
  \o (IF operator \in {"contains", "starts_with"} THEN <<Wild("%")>> ELSE <<>>)

\* a compiled pattern condition on a string field with a string value
PatternCompiled ==
  /\ Succeeded
  /\ PermittedCondition
  /\ CondOperator(rule) \in PatternOperators
  /\ Schema[CondField(rule)].type = "string"
  /\ Len(CondValues(rule)) = 1 /\ CondValues(rule)[1].t = "str"

\* the user value as the field's input transforms leave it
UserText ==
  applyValueTransforms(CondValues(rule)[1], Schema[CondField(rule)].transformInput).c

\* C20: for contains / starts_with / ends_with on a string field, in every
\* dialect, the one registered parameter is a pattern in which every
\* character of the user value is read literally by the database, none as
\* a wildcard or as an escape, with % only on the sides the operator
\* requires.
C20_PatternMatchesLiterally ==
  PatternCompiled =>
    /\ Len(result.params) = 1
    /\ result.params[1].v.t = "str"
    /\ ReadLike(compiler.dialect.name, result.params[1].v.c)
         = LiteralPattern(CondOperator(rule), UserText)

-----------------------------------------------------------------------------
(* Operators a dialect does not implement                                  *)

JsonOperators == {"json_contains", "json_has_key", "json_has_any_keys"}

\* the rule is one well-formed condition with this operator
ConditionWith(ops) ==
  /\ Done
  /\ RuleKey(rule) # "" /\ RuleKey(rule) \notin Connectives
  /\ WellFormed(rule)
  /\ CondOperator(rule) \in ops

OnArrayField ==
  CondField(rule) \in DOMAIN Schema /\ Schema[CondField(rule)].type = "array"

\* the operator of the rule is one the compiler's dialect does not implement
Unsupported ==
  \/ /\ compiler.dialect.name \in {"mssql", "sqlite"}
     /\ \/ ConditionWith({"contains", "contained_by", "overlaps"}) /\ OnArrayField
        \/ ConditionWith(JsonOperators)
  \/ compiler.dialect.name = "mssql" /\ ConditionWith({"regex"})
  \/ compiler.dialect.name = "mysql" /\ ConditionWith({"contained_by", "overlaps"})

UnsupportedErrors ==
  {"Array operator is not supported in MSSQL dialect",
   "JSON operator is not supported in MSSQL dialect",
   "Regex not supported in MSSQL",
   "Array operator is not supported in SQLite dialect",
   "JSON operator is not supported in SQLite dialect",
   "Operator is not supported in MySQL dialect"}

\* the same rule compiles on a PostgreSQL compiler with the same limits
CompilesOnPostgres ==
  compile([compiler EXCEPT !.dialect = [name |-> "postgresql", placeholderStyle |-> ""]],
          rule).ok

\* C21: an operator outside a dialect's supported set never produces SQL:
\* on MSSQL and SQLite contains / contained_by / overlaps on an array field
\* and the three JSON operators fail, on MSSQL regex fails, on MySQL
\* contained_by and overlaps fail; where PostgreSQL compiles the rule the
\* failure is the dialect's not-supported error.
C21_UnsupportedNeverCompiles ==
  Unsupported =>
    /\ ~result.ok
    /\ result.sql = <<>> /\ result.params = <<>>
    /\ CompilesOnPostgres => result.err \in UnsupportedErrors

\* overlaps on the array field, which PostgreSQL compiles, is refused by
\* the MySQL emitter
C21_Witness ==
  /\ Unsupported
  /\ compiler.dialect.name = "mysql"
  /\ CondOperator(rule) = "overlaps" /\ OnArrayField
  /\ CompilesOnPostgres
  /\ result.err = "Operator is not supported in MySQL dialect"

-----------------------------------------------------------------------------
(* Pagination (utils/pagination.ts)                                        *)

DEFAULT_PAGE_SIZE == 20

MAX_PAGE_SIZE == 100

\* an argument or option that is left out, and one that is given
None == [def |-> FALSE, n |-> 0]

Some(n) == [def |-> TRUE, n |-> n]

\* x ?? d
OrElse(x, d) == IF x.def THEN x.n ELSE d

MathMax(a, b) == IF a >= b THEN a ELSE b

MathMin(a, b) == IF a <= b THEN a ELSE b

\* a limit that is capped from above only
clampLimit_upperOnly(limit, maxPageSize) == MathMin(limit, maxPageSize)

\* Math.min(Math.max(1, limit), maxPageSize)
clampLimit(limit, maxPageSize) == MathMin(MathMax(1, limit), maxPageSize)

\* getPlaceholder(style, index) of the pagination module
getPlaceholder(style, index) ==
  CASE style = "question" -> "?"
    [] style = "at" -> "@p" \o ToString(index)
    [] OTHER -> "$" \o ToString(index)

\* buildPagination(options, maxPageSize = MAX_PAGE_SIZE, startIndex = 1)
buildPagination(options, maxPageSizeArg, startIndexArg) ==
  LET maxPageSize == OrElse(maxPageSizeArg, MAX_PAGE_SIZE)
      startIndex == OrElse(startIndexArg, 1)
      placeholderStyle == IF options.placeholderStyle # "" THEN options.placeholderStyle
                          ELSE "dollar"
      raw == options.offset.def /\ options.limit.def
      offsetRaw == MathMax(0, options.offset.n)
      limitRaw == clampLimit(options.limit.n, maxPageSize)
      pageP == MathMax(1, OrElse(options.page, 1))
      pageSize == clampLimit(OrElse(options.pageSize, DEFAULT_PAGE_SIZE), maxPageSize)
      offset == IF raw THEN offsetRaw ELSE (pageP - 1) * pageSize
      limit == IF raw THEN limitRaw ELSE pageSize
      page == IF raw THEN (offsetRaw \div limitRaw) + 1 ELSE pageP
      limitParamIndex == startIndex
      offsetParamIndex == startIndex + 1
      limitKey == getParamKey(limitParamIndex)
      offsetKey == getParamKey(offsetParamIndex)
  IN [sql |-> <<"LIMIT ", getPlaceholder(placeholderStyle, limitParamIndex),
                " OFFSET ", getPlaceholder(placeholderStyle, offsetParamIndex)>>,
      params |-> ObjSet(ObjSet(<<>>, limitKey, limit), offsetKey, offset),
      paramsArray |-> <<limit, offset>>,
      meta |-> [page |-> page, pageSize |-> limit, offset |-> offset],
      nextParamIndex |-> startIndex + 2]

\* calls chained through nextParamIndex
MaxCalls == 2

PageNumbers == {-2, 0, 1, 3}

OptionalNumbers == {None} \cup {Some(n) : n \in PageNumbers}

PaginationOptions ==
  [page : OptionalNumbers, pageSize : OptionalNumbers, offset : OptionalNumbers,
   limit : OptionalNumbers, placeholderStyle : {"", "question", "at"}]

\* the maxPageSize argument: left out, or a cap of at least 1
MaxPageSizes == {None, Some(1), Some(2)}

StartIndexes == {None, Some(0), Some(4)}

\* options of the later calls of a chain
ChainedOptions ==
  {o \in PaginationOptions :
     /\ o.placeholderStyle = ""
     /\ o.offset = None /\ o.limit = None
     /\ o.pageSize = None
     /\ o.page \in {None, Some(3)}}

NoCall == [options |-> None, maxPageSize |-> None, startIndex |-> None]

NoPagination ==
  [last |-> [sql |-> <<>>, params |-> <<>>, paramsArray |-> <<>>,
             meta |-> [page |-> 0, pageSize |-> 0, offset |-> 0], nextParamIndex |-> 0],
   all |-> <<>>, calls |-> 0]

\* no clause has been built yet; the compiler plays no part
InitPagination ==
  /\ compiler = JsonLogicCompiler([dialect |-> "", placeholderStyle |-> "",
                                  maxDepth |-> Undefined, maxConditions |-> Undefined])
  /\ rule = NoCall
  /\ result = NoPagination
  /\ pc = "ready"

\* the first buildPagination of a query: params is the caller's merged map
BuildPagination ==
  /\ pc = "ready"
  /\ \E o \in PaginationOptions, m \in MaxPageSizes, i \in StartIndexes :
       /\ rule' = [options |-> o, maxPageSize |-> m, startIndex |-> i]
       /\ result' = [last |-> buildPagination(o, m, i),
                     all |-> buildPagination(o, m, i).params,
                     calls |-> 1]
  /\ pc' = "paged"
  /\ UNCHANGED compiler

\* a further buildPagination started at the nextParamIndex of the last one
BuildPaginationChained ==
  /\ pc = "paged"
  /\ result.calls < MaxCalls
  /\ \E o \in ChainedOptions :
       LET i == Some(result.last.nextParamIndex)
           r == buildPagination(o, rule.maxPageSize, i)
       IN /\ rule' = [options |-> o, maxPageSize |-> rule.maxPageSize, startIndex |-> i]
          /\ result' = [last |-> r, all |-> ObjAssign(result.all, r.params),
                        calls |-> result.calls + 1]
  /\ UNCHANGED <<compiler, pc>>

NextPagination == BuildPagination \/ BuildPaginationChained

SpecPagination == InitPagination /\ [][NextPagination]_vars

EmitterFieldTypes == result.ctx.emitterFieldTypes

\* C23: for every condition of a compiled rule, the context the dialect
\* emitter is called with carries the declared type of the condition's field,
\* whatever the operator class
C23_FieldTypeDuringEmitter ==
  Succeeded =>
    /\ Len(EmitterFieldTypes) = Len(Conditions(rule))
    /\ \A i \in 1..Len(EmitterFieldTypes) :
         EmitterFieldTypes[i] = Schema[CondField(Conditions(rule)[i])].type
\* C24: when the handling of a condition is over, by a fragment or by an
\* error of validation or of the emitter, the field type in the context is
\* the one it had when the handling started (unset, as compile starts with a
\* fresh context and every earlier condition left it so)
C24_FieldTypeRestored ==
  Done => result.ctx.fieldType = NewContext.fieldType

\* C24: an emitter that ran with the field type set threw, and the context
\* came back with the field type unset
C24_Witness ==
  /\ Done
  /\ ~result.ok
  /\ EmitterFieldTypes # <<>>
  /\ EmitterFieldTypes[Len(EmitterFieldTypes)] \in {"array", "jsonb"}
  /\ result.ctx.fieldType = NewContext.fieldType

(***************************************************************************)
(* Input transforms of the value and of the column                         *)
(***************************************************************************)

\* the wrappers applyTransforms puts around a column
TransformWrappers == {"LOWER(", "UPPER(", "TRIM(", "LTRIM(", "RTRIM("}

\* a compiled equality on a field that declares an input transform, with a
\* string the transform changes
TransformableEquality ==
  /\ Succeeded
  /\ Len(Conditions(rule)) = 1
  /\ rule = Conditions(rule)[1]
  /\ WellFormed(rule)
  /\ CondOperator(rule) = "eq"
  /\ CondField(rule) \in DOMAIN Schema
  /\ Schema[CondField(rule)].transformInput # <<>>
  /\ Len(CondValues(rule)) = 1
  /\ CondValues(rule)[1].t = "str"
  /\ applyValueTransforms(CondValues(rule)[1], Schema[CondField(rule)].transformInput)
       # CondValues(rule)[1]

ValueTransformed ==
  result.paramsArray =
    <<applyValueTransforms(CondValues(rule)[1], Schema[CondField(rule)].transformInput)>>

ColumnTransformed == \E i \in 1..Len(result.sql) : result.sql[i] \in TransformWrappers

\* C25: the input transform reaches the value of a condition exactly when it
\* reaches the column, and that is only for regular fields: for a computed or
\* JSON-path field neither is transformed
C25_TransformsTogether ==
  TransformableEquality =>
    /\ ValueTransformed <=> ColumnTransformed
    /\ ColumnTransformed <=> RegularField(CondField(rule))

(***************************************************************************)
(* The condition counter                                                   *)
(***************************************************************************)

ConditionCountError == "Maximum condition count exceeded"

\* C26: each leaf condition is counted once, so a rule with at most
\* max_conditions leaf conditions and no node deeper than max_depth is never
\* rejected with the condition count error
C26_LeavesCountedOnce ==
  (/\ Done
   /\ Len(Conditions(rule)) <= compiler.maxConditions
   /\ MaxNodeDepth(rule) <= compiler.maxDepth)
    => result.err # ConditionCountError

(***************************************************************************)
(* Quoted identifiers as the engine reads them                             *)
(***************************************************************************)

OpenDelimiter(dialect) ==
  CASE dialect = "mysql" -> BT [] dialect = "mssql" -> "[" [] OTHER -> "\""

CloseDelimiter(dialect) ==
  CASE dialect = "mysql" -> BT [] dialect = "mssql" -> "]" [] OTHER -> "\""

\* reads a quoted identifier whose opening delimiter stands before position
\* i: a doubled closing delimiter is one character of the name, a single one
\* ends it; next is 0 when the text ends first
RECURSIVE ReadQuoted(_, _, _, _)
ReadQuoted(s, i, close, acc) ==
  IF i > Len(s) THEN [name |-> acc, next |-> 0]
  ELSE IF s[i] = close
  THEN IF i + 1 <= Len(s) /\ s[i + 1] = close
       THEN ReadQuoted(s, i + 2, close, Append(acc, close))
       ELSE [name |-> acc, next |-> i + 1]
  ELSE ReadQuoted(s, i + 1, close, Append(acc, s[i]))

\* reads quoted identifiers joined by dots from position i on
RECURSIVE ReadQualified(_, _, _, _)
ReadQualified(s, i, dialect, acc) ==
  IF i > Len(s) \/ s[i] # OpenDelimiter(dialect) THEN [parts |-> acc, next |-> 0]
  ELSE LET q == ReadQuoted(s, i + 1, CloseDelimiter(dialect), <<>>)
       IN IF q.next = 0 THEN [parts |-> Append(acc, q.name), next |-> 0]
          ELSE IF q.next <= Len(s) /\ s[q.next] = "."
          THEN ReadQualified(s, q.next + 1, dialect, Append(acc, q.name))
          ELSE [parts |-> Append(acc, q.name), next |-> q.next]

\* a compiled comparison whose SQL starts with the quoted column
QuotedColumnFirst ==
  /\ Succeeded
  /\ Len(Conditions(rule)) = 1
  /\ rule = Conditions(rule)[1]
  /\ WellFormed(rule)
  /\ CondOperator(rule) = "eq"
  /\ RegularField(CondField(rule))
  /\ Schema[CondField(rule)].transformInput = <<>>
  /\ CondValues(rule) # <<>> /\ CondValues(rule)[1].t = "str"

\* C27: in every dialect a column name cannot end its own quoting: read as
\* the engine reads quoted identifiers, the emitted column is the parts of
\* the column name and nothing else, the closing delimiter being unescaped
\* only at the end of each part
C27_QuotingNotTerminatedEarly ==
  QuotedColumnFirst =>
    LET r == ReadQualified(result.sql, 1, compiler.dialect.name, <<>>)
    IN /\ r.parts = ColumnParts(CondField(rule))
       /\ r.next # 0
       /\ result.sql[r.next] = " "

(***************************************************************************)
(* Text input transforms and the registered parameters                     *)
(***************************************************************************)

\* the strings of a sequence of values, list elements included, in order
RECURSIVE StringsOf(_)
StringsOf(vs) ==
  IF vs = <<>> THEN <<>>
  ELSE (CASE Head(vs).t = "str" -> <<Head(vs)>>
          [] Head(vs).t = "list" -> StringsOf(Head(vs).xs)
          [] OTHER -> <<>>) \o StringsOf(Tail(vs))

\* a compiled comparison, list or range condition on a regular field with a
\* text input transform, supplied with at least one string
TransformedFieldCompiled ==
  /\ Succeeded
  /\ Len(Conditions(rule)) = 1
  /\ rule = Conditions(rule)[1]
  /\ WellFormed(rule)
  /\ CondOperator(rule) \in {"eq", "ne", "in", "not_in", "between", "not_between"}
  /\ RegularField(CondField(rule))
  /\ Schema[CondField(rule)].transformInput # <<>>
  /\ Len(CondValues(rule)) = (IF CondOperator(rule) \in RANGE_OPERATORS THEN 2 ELSE 1)
  /\ StringsOf(CondValues(rule)) # <<>>

\* C28: on a field with a text input transform every string parameter a
\* condition registers, each element of an in / not_in list and both between
\* bounds included, is the transformed form of the supplied string
C28_StringParamsTransformed ==
  TransformedFieldCompiled =>
    StringsOf(result.paramsArray)
      = [i \in 1..Len(StringsOf(CondValues(rule))) |->
           applyValueTransforms(StringsOf(CondValues(rule))[i],
                                Schema[CondField(rule)].transformInput)]

(***************************************************************************)
(* Rule nodes with several keys                                            *)
(***************************************************************************)

\* the keys of a rule node that sanitization keeps
KeptKeys(node) == {i \in 1..Len(node.ks) : node.ks[i] \notin DANGEROUS_KEYS}

\* the rule node, or a node inside its connectives, keeps more than one key
RECURSIVE HasSeveralKeys(_)
HasSeveralKeys(node) ==
  /\ node.t = "obj"
  /\ \/ Cardinality(KeptKeys(node)) > 1
     \/ \E i \in 1..Len(Children(node)) : HasSeveralKeys(Children(node)[i])

\* C29: a rule with a node of more than one key (after sanitization) is
\* rejected; compile never compiles one key of it and ignores the others
C29_SeveralKeysRejected ==
  (Done /\ HasSeveralKeys(rule)) => ~result.ok

(***************************************************************************)
(* buildSelect (utils/select.ts)                                           *)
(***************************************************************************)

\* [err, sql]: the quoted identifier, or the error thrown
RECURSIVE escapeIdentifier(_)
escapeIdentifier(name) ==
  IF "." \in SeqToSet(name)
  THEN LET parts == Split(name, ".")
           escaped == [i \in 1..Len(parts) |-> escapeIdentifier(parts[i])]
       IN IF (\E i \in 1..Len(parts) : parts[i] = <<>>) \/ Len(parts) > 3
          THEN [err |-> "Invalid identifier structure", sql |-> <<>>]
          ELSE IF \E i \in 1..Len(parts) : escaped[i].err # ""
          THEN [err |-> "Invalid identifier", sql |-> <<>>]
          ELSE [err |-> "", sql |-> Join([i \in 1..Len(parts) |-> escaped[i].sql], <<".">>)]
  ELSE IF ~LexemeOK(name) THEN [err |-> "Invalid identifier", sql |-> <<>>]
  ELSE [err |-> "", sql |-> <<"\"">> \o name \o <<"\"">>]

\* a field of a select schema with every optional attribute absent
SelectField ==
  [selectable |-> TRUE, column |-> <<>>, computed |-> FALSE, expression |-> "",
   jsonPath |-> "", transformOutput |-> <<>>]

\* [err, sql]: the select expression of one field
buildColumnExpression(fieldName, field, dialect) ==
  LET alias == escapeIdentifier(fieldName)
      columnName == IF field.column # <<>> THEN field.column ELSE fieldName
      column == escapeIdentifier(columnName)
      expr == applyTransforms(column.sql, field.transformOutput, dialect)
      as(text) == IF alias.err # "" THEN [err |-> alias.err, sql |-> <<>>]
                  ELSE [err |-> "", sql |-> text \o <<" AS ">> \o alias.sql]
  IN CASE field.computed -> as(<<"(", field.expression, ")">>)
       [] field.jsonPath # "" -> as(<<field.jsonPath>>)
       [] columnName # fieldName ->
            IF column.err # "" THEN [err |-> column.err, sql |-> <<>>] ELSE as(column.sql)
       [] field.transformOutput # <<>> ->
            IF column.err # "" THEN [err |-> column.err, sql |-> <<>>]
            ELSE IF expr.err # "" THEN [err |-> expr.err, sql |-> <<>>]
            ELSE as(expr.column)
       [] OTHER -> column

\* a schema is the sequence of its [name, field] entries, in key order
hasField(schema, fieldName) == \E i \in 1..Len(schema) : schema[i].name = fieldName

fieldOf(schema, fieldName) ==
  schema[CHOOSE i \in 1..Len(schema) : schema[i].name = fieldName].field

RECURSIVE without(_, _)
without(names, exclude) ==
  IF names = <<>> THEN <<>>
  ELSE (IF Head(names) \in SeqToSet(exclude) THEN <<>> ELSE <<Head(names)>>)
         \o without(Tail(names), exclude)

RECURSIVE selectableNames(_)
selectableNames(schema) ==
  IF schema = <<>> THEN <<>>
  ELSE (IF Head(schema).field.selectable THEN <<Head(schema).name>> ELSE <<>>)
         \o selectableNames(Tail(schema))

\* a guard that lets every requested field through
notSelectable_never(field) == FALSE

\* if (field.selectable === false) throw
notSelectable(field) == ~field.selectable

\* the loop over fieldsToSelect: [err, parts], stopped by the first throw
RECURSIVE selectParts(_, _, _, _)
selectParts(schema, names, dialect, parts) ==
  IF names = <<>> THEN [err |-> "", parts |-> parts]
  ELSE IF ~hasField(schema, Head(names)) THEN [err |-> "Unknown field", parts |-> parts]
  ELSE IF notSelectable(fieldOf(schema, Head(names)))
  THEN [err |-> "Field not selectable", parts |-> parts]
  ELSE LET column == buildColumnExpression(Head(names), fieldOf(schema, Head(names)), dialect)
       IN IF column.err # "" THEN [err |-> column.err, parts |-> parts]
          ELSE selectParts(schema, Tail(names), dialect, Append(parts, column.sql))

\* [ok, err, sql, fields]
buildSelect(schema, options) ==
  LET fieldsToSelect ==
        IF options.fields.given /\ Len(options.fields.xs) > 0
        THEN without(options.fields.xs, options.exclude)
        ELSE without(selectableNames(schema), options.exclude)
      r == selectParts(schema, fieldsToSelect, options.dialect, <<>>)
  IN IF r.err # "" THEN [ok |-> FALSE, err |-> r.err, sql |-> <<>>, fields |-> <<>>]
     ELSE IF r.parts = <<>> THEN [ok |-> TRUE, err |-> "", sql |-> <<"*">>, fields |-> <<>>]
     ELSE [ok |-> TRUE, err |-> "", sql |-> Join(r.parts, <<", ">>), fields |-> fieldsToSelect]

n_id == <<"i", "d">>
n_password == <<"p", "a", "s", "s", "w", "o", "r", "d">>

\* the shapes a select field takes in buildColumnExpression; two of them
\* make it throw
SelectShapes ==
  {SelectField,
   [SelectField EXCEPT !.column = <<"f", "n">>],
   [SelectField EXCEPT !.column = <<"t", ".", "f", "n">>],
   [SelectField EXCEPT !.column = <<"f", "\"">>],
   [SelectField EXCEPT !.computed = TRUE, !.expression = "first || last"],
   [SelectField EXCEPT !.jsonPath = "data->>'name'"],
   [SelectField EXCEPT !.transformOutput = <<"upper">>],
   [SelectField EXCEPT !.transformOutput = <<"unaccent">>]}

SelectSchemas ==
  {<<[name |-> n_id, field |-> [SelectField EXCEPT !.selectable = a]],
     [name |-> f_name, field |-> [shape EXCEPT !.selectable = b]],
     [name |-> n_password, field |-> [SelectField EXCEPT !.selectable = c]]>> :
     a \in BOOLEAN, b \in BOOLEAN, c \in BOOLEAN, shape \in SelectShapes}

RequestedNames == {n_id, f_name, n_password, f_ghost}

SelectOptions ==
  {[fields |-> f, exclude |-> e, dialect |-> d] :
     f \in {[given |-> FALSE, xs |-> <<>>], [given |-> TRUE, xs |-> <<>>]}
           \cup {[given |-> TRUE, xs |-> <<a>>] : a \in RequestedNames}
           \cup {[given |-> TRUE, xs |-> <<a, b>>] : a, b \in RequestedNames},
     e \in {<<>>, <<n_id>>, <<f_name>>, <<n_id, f_name>>, <<n_id, f_name, n_password>>},
     d \in {"", "postgresql"}}

NoSelectCall ==
  [schema |-> <<>>, options |-> [fields |-> [given |-> FALSE, xs |-> <<>>],
                                 exclude |-> <<>>, dialect |-> ""]]

NoSelect == [ok |-> FALSE, err |-> "", sql |-> <<>>, fields |-> <<>>]

\* no clause has been built yet; the compiler plays no part
InitSelect ==
  /\ compiler = JsonLogicCompiler([dialect |-> "", placeholderStyle |-> "",
                                  maxDepth |-> Undefined, maxConditions |-> Undefined])
  /\ rule = NoSelectCall
  /\ result = NoSelect
  /\ pc = "ready"

BuildSelect ==
  /\ pc = "ready"
  /\ \E schema \in SelectSchemas, options \in SelectOptions :
       /\ rule' = [schema |-> schema, options |-> options]
       /\ result' = buildSelect(schema, options)
  /\ pc' = "selected"
  /\ UNCHANGED compiler

NextSelect == BuildSelect

SpecSelect == InitSelect /\ [][NextSelect]_vars

\* the fields of the schema in use that are declared selectable = false
NonSelectable ==
  {rule.schema[i].name : i \in {j \in 1..Len(rule.schema) : ~rule.schema[j].field.selectable}}

\* the clause names the field: its quoted name stands in the SQL
Lists(sql, fieldName) == Occurs(<<"\"">> \o fieldName \o <<"\"">>, sql)

\* the clause selects the field: it names it, or it is * and selects every
\* column of the table
Selects(sql, fieldName) == sql = <<"*">> \/ Lists(sql, fieldName)

\* C30 (as stated): whatever the schema and the fields / exclude options,
\* the SQL buildSelect returns selects no field declared selectable = false
C30_NeverSelectsNonSelectable ==
  (pc = "selected" /\ result.ok) =>
    \A f \in NonSelectable : ~Selects(result.sql, f)

\* C30 (amended): the SQL buildSelect returns names no field declared
\* selectable = false, nor does its list of fields; it is * exactly when no
\* field is left to select, and * selects every column
C30_NeverListsNonSelectable ==
  (pc = "selected" /\ result.ok) =>
    /\ \A f \in NonSelectable : ~Lists(result.sql, f) /\ f \notin SeqToSet(result.fields)
    /\ result.sql = <<"*">> <=> result.fields = <<>>

\* a schema with a non-selectable field: the default selection leaves it
\* out and names the others
C30_Witness ==
  /\ pc = "selected"
  /\ result.ok
  /\ ~rule.options.fields.given
  /\ n_password \in NonSelectable
  /\ result.fields = <<n_id, f_name>>
  /\ Lists(result.sql, f_name)
====
